---------------------------- MODULE Spec2Model ----------------------------
(***************************************************************************)
(* chat_htm: the two SDR encoders (ScalarEncoder, WordRowEncoder), the two *)
(* corpus cursors (TextChunker, WordChunker) and the TextRuntime step loop *)
(* that feeds an HTMRegion and keeps the prediction-accuracy counters.     *)
(*                                                                         *)
(* Each component has its own specification over its own variables; the    *)
(* variables of the other components stay at their initial value.          *)
(*   SpecScalar  ScalarEncoder: construction, encode, overlap              *)
(*   SpecWord    WordRowEncoder: construction, encode                      *)
(*   SpecCursor  TextChunker / WordChunker: next, peek, peek_at, reset     *)
(*   SpecConstruct  TextChunker / WordChunker: the constructors            *)
(*   Spec        TextRuntime over a cursor, an encoder and the region      *)
(***************************************************************************)
EXTENDS Integers, Sequences, FiniteSets, TLC

VARIABLES
    enc,            \* the ScalarEncoder object (params_, num_buckets_, range_)
    enc_call,       \* the last ScalarEncoder call: operation, arguments, result
    wenc,           \* the WordRowEncoder object (params_)
    wenc_call,      \* the last WordRowEncoder call
    chunker,        \* the TextChunker (text_, pos_, epoch_, total_steps_)
    word_chunker,   \* the WordChunker (words_, pos_, epoch_, total_steps_)
    cur_call,       \* the last cursor call: operation, argument, returned symbol
    rt,             \* the TextRuntime's own fields
    region,         \* the HTMRegion behind region_
    rt_call         \* the step call in progress and what its last iteration did

scalarVars == <<enc, enc_call>>
wordVars == <<wenc, wenc_call>>
cursorVars == <<chunker, word_chunker, cur_call>>
runtimeVars == <<rt, region, rt_call>>
vars == <<enc, enc_call, wenc, wenc_call, chunker, word_chunker, cur_call,
          rt, region, rt_call>>
notScalarVars == <<wordVars, cursorVars, runtimeVars>>
notWordVars == <<scalarVars, cursorVars, runtimeVars>>
notCursorVars == <<scalarVars, wordVars, runtimeVars>>
notRuntimeVars == <<enc, enc_call, wenc, wenc_call, cur_call>>

(***************************************************************************)
(* Bounds of the model.                                                    *)
(***************************************************************************)
\* `int` is IntBits wide (two's complement); the program's int is 32 bits wide.
IntBits == 8
\* ScalarEncoder: n ranges over -1..MaxN, w over -1..MaxN+1.
MaxN == 5
\* values, min_val and max_val are drawn from -ValK..ValK and the two values
\* at either end of the int range.
ValK == 2

IntMin == -(2 ^ (IntBits - 1))
IntMax == (2 ^ (IntBits - 1)) - 1

\* The int range of a machine whose int is bits wide, and the result its
\* two's-complement arithmetic leaves for x.
IntMinOf(bits) == -(2 ^ (bits - 1))
IntMaxOf(bits) == (2 ^ (bits - 1)) - 1
WrapTo(bits, x) == ((x - IntMinOf(bits)) % (2 ^ bits)) + IntMinOf(bits)

\* The result an IntBits-wide two's-complement machine leaves for x.
Wrap(x) == WrapTo(IntBits, x)

\* The least width the language allows an int. The default configuration
\* (n = 400) does not fit an int of IntBits bits; every int it computes fits
\* one of MinIntBits, so a machine of that width computes what any wider one
\* does.
MinIntBits == 16

Min2(a, b) == IF a < b THEN a ELSE b
Max2(a, b) == IF a > b THEN a ELSE b

\* Number of entries of s that are non-zero.
PopCount(s) == Cardinality({i \in 1..Len(s) : s[i] # 0})

(***************************************************************************)
(* ScalarEncoder  (src/src/encoders/scalar_encoder.hpp)                    *)
(***************************************************************************)
ValSet == {IntMin, IntMin + 1, IntMax - 1, IntMax} \cup (-ValK..ValK)

ScalarParams ==
    [n : -1..MaxN, w : -1..(MaxN + 1), min_val : ValSet, max_val : ValSet]

\* validate() without the test w > n.
ValidateNoWidthCheck(p) ==
    /\ ~(p.n <= 0)
    /\ ~(p.w <= 0)
    /\ ~(p.max_val < p.min_val)

\* validate(): TRUE when no invalid_argument is thrown.
ScalarEncoder_validate(p) ==
    /\ ~(p.n <= 0)
    /\ ~(p.w <= 0)
    /\ ~(p.w > p.n)
    /\ ~(p.max_val < p.min_val)

\* max_val - min_val is an int subtraction; it overflows when the difference
\* does not fit an int, which is undefined behaviour.
RangeOverflows(p) == p.max_val - p.min_val > IntMax

\* What a build makes of the overflowing subtraction and of the test
\* `range_ > 0` that reads it (both observed with g++ 12 on x86-64):
\*   "wrap"    range_ holds the wrapped difference and the test reads it (-O0, -O3);
\*   "assume"  range_ holds the wrapped difference, and the test, compiled under
\*             the assumption that the subtraction did not overflow, is
\*             max_val > min_val (-O2).
\* "none": the subtraction did not overflow.
UbOutcomes(p) == IF RangeOverflows(p) THEN {"wrap", "assume"} ELSE {"none"}

\* The constructor on a machine whose int is bits wide: validate(), then
\* num_buckets_ and range_.
ScalarEncoder_build(bits, p, ub) ==
    IF ~ScalarEncoder_validate(p)
    THEN [status |-> "invalid_argument", params |-> p, num_buckets_ |-> 0,
          range_ |-> 0, ub |-> "none", bits |-> bits]
    ELSE [status |-> "ok", params |-> p, num_buckets_ |-> p.n - p.w,
          range_ |-> WrapTo(bits, p.max_val - p.min_val), ub |-> ub, bits |-> bits]

\* The constructor on the machine of IntBits bits.
ScalarEncoder_new(p, ub) == ScalarEncoder_build(IntBits, p, ub)

\* Lines 24-27 and 30: Params{} and the default constructor.
DefaultParams == [n |-> 400, w |-> 21, min_val |-> 0, max_val |-> 127]
ScalarEncoder_default == ScalarEncoder_build(MinIntBits, DefaultParams, "none")

\* The clamp without its first line: a value below min_val stays.
NoLowerClamp(p, value) == IF value > p.max_val THEN p.max_val ELSE value

\* Lines 44-45: clamp value to [min_val, max_val].
Clamp(p, value) ==
    LET v1 == IF value < p.min_val THEN p.min_val ELSE value
    IN  IF v1 > p.max_val THEN p.max_val ELSE v1

\* The test `range_ > 0` of line 49 as the build evaluates it.
RangePositive(e) ==
    IF e.ub = "assume" THEN e.params.max_val > e.params.min_val
    ELSE e.range_ > 0

\* static_cast<int>(d) for the double d = num / den: truncation toward zero;
\* a d outside the int range is undefined, and x86-64 yields INT_MIN.
TruncToInt(bits, num, den) ==
    LET sn == IF den < 0 THEN -num ELSE num
        sd == IF den < 0 THEN -den ELSE den
        q == IF sn >= 0 THEN sn \div sd ELSE -((-sn) \div sd)
    IN  IF q < IntMinOf(bits) \/ q > IntMaxOf(bits) THEN IntMinOf(bits) ELSE q

\* The scaling without the division by range_.
DoubleStartNoRange(bits, x, range, num_buckets) ==
    TruncToInt(bits, 2 * x * num_buckets + 1, 2)

\* Lines 50-51: static_cast<int>(double(x) / range_ * num_buckets_ + 0.5),
\* that is trunc(x * num_buckets_ / range_ + 1/2), evaluated exactly (for the
\* values of the model the double evaluation gives the same integer).
DoubleStart(bits, x, range, num_buckets) ==
    TruncToInt(bits, 2 * x * num_buckets + range, 2 * range)

\* Lines 47-53: the start of the active window.
ScalarEncoder_start(e, value) ==
    LET v == Clamp(e.params, value)
        start == IF RangePositive(e)
                 THEN DoubleStart(e.bits, WrapTo(e.bits, v - e.params.min_val),
                                  e.range_, e.num_buckets_)
                 ELSE 0
    IN  IF start > e.num_buckets_ THEN e.num_buckets_ ELSE start

\* Lines 55-58: the loop writes sdr[i] for i in start .. start + w - 1; an i
\* outside [0, n) is a write outside the vector (ScalarEncoder_oob), which
\* leaves the vector's own entries as they were.
RECURSIVE WriteOnes(_, _, _)
WriteOnes(sdr, i, stop) ==
    IF ~(i < stop) THEN sdr
    ELSE WriteOnes(IF i >= 0 /\ i < Len(sdr) THEN [sdr EXCEPT ![i + 1] = 1] ELSE sdr,
                   i + 1, stop)

ScalarEncoder_encode(e, value) ==
    LET start == ScalarEncoder_start(e, value)
        zeros == [i \in 1..e.params.n |-> 0]
        \* only the indices that fall inside the vector change it
        from == Max2(start, 0)
        to == Min2(start + e.params.w, e.params.n)
    IN  WriteOnes(zeros, from, to)

ScalarEncoder_oob(e, value) ==
    LET start == ScalarEncoder_start(e, value)
    IN  start < 0 \/ start + e.params.w > e.params.n

\* The loop of lines 67-70 from index i on: one count for each index at which
\* both vectors are non-zero (as a set of indices, the loop's 400 iterations
\* for the default encoder being too deep a recursion).
CountBoth(a, b, i) == Cardinality({j \in i..Len(a) : a[j] # 0 /\ b[j] # 0})

\* Lines 64-72: overlap(val_a, val_b).
ScalarEncoder_overlap(e, val_a, val_b) ==
    CountBoth(ScalarEncoder_encode(e, val_a), ScalarEncoder_encode(e, val_b), 1)

\* start_a, start_b: the window starts encode computed for a and for b.
NoScalarCall ==
    [op |-> "none", a |-> 0, b |-> 0, sdr |-> <<>>, oob |-> FALSE, count |-> 0,
     start_a |-> 0, start_b |-> 0]

InitScalar ==
    /\ \E p \in ScalarParams : \E ub \in UbOutcomes(p) : enc = ScalarEncoder_new(p, ub)
    /\ enc_call = NoScalarCall

\* The default encoder, as the tests of the adjacency property build it.
InitDefault ==
    /\ enc = ScalarEncoder_default
    /\ enc_call = NoScalarCall

\* The values of the default range, and the pairs overlap is asked for: equal
\* values, adjacent values and the two extremes.
DefaultValues == DefaultParams.min_val..DefaultParams.max_val
DefaultPairs ==
    {<<a, b>> \in DefaultValues \X DefaultValues :
        b - a \in {0, 1} \/ <<a, b>> = <<DefaultParams.min_val, DefaultParams.max_val>>}

\* The encoder a character-mode runtime is given: n is the region's input size.
RuntimeScalarParams == [n |-> 2 * 3, w |-> 2, min_val |-> 0, max_val |-> IntMax]

IdleScalar ==
    /\ enc = ScalarEncoder_new(RuntimeScalarParams, "none")
    /\ enc_call = NoScalarCall

\* encode(value) on the constructed encoder.
EncodeCall(value) ==
    /\ enc.status = "ok"
    /\ enc_call.op = "none"
    /\ enc_call' = [op |-> "encode", a |-> value, b |-> value,
                    sdr |-> ScalarEncoder_encode(enc, value),
                    oob |-> ScalarEncoder_oob(enc, value), count |-> 0,
                    start_a |-> ScalarEncoder_start(enc, value),
                    start_b |-> ScalarEncoder_start(enc, value)]
    /\ UNCHANGED <<enc, notScalarVars>>

\* overlap(val_a, val_b) on the constructed encoder.
OverlapCall(val_a, val_b) ==
    /\ enc.status = "ok"
    /\ enc_call.op = "none"
    /\ enc_call' = [op |-> "overlap", a |-> val_a, b |-> val_b, sdr |-> <<>>,
                    oob |-> ScalarEncoder_oob(enc, val_a) \/ ScalarEncoder_oob(enc, val_b),
                    count |-> ScalarEncoder_overlap(enc, val_a, val_b),
                    start_a |-> ScalarEncoder_start(enc, val_a),
                    start_b |-> ScalarEncoder_start(enc, val_b)]
    /\ UNCHANGED <<enc, notScalarVars>>

(***************************************************************************)
(* Characters are their ASCII codes; a string is a sequence of codes.      *)
(***************************************************************************)
\* std::isalpha and std::tolower of the "C" locale.
IsAlpha(uc) == (uc >= 65 /\ uc <= 90) \/ (uc >= 97 /\ uc <= 122)
IsUpper(uc) == uc >= 65 /\ uc <= 90
ToLower(uc) == IF IsUpper(uc) THEN uc + 32 ELSE uc

\* 'A', 'a', 'b' and ','.
CharSet == {65, 97, 98, 44}

\* All strings over CharSet of length at most len.
StringsUpTo(len) == UNION {[1..k -> CharSet] : k \in 0..len}

(***************************************************************************)
(* WordRowEncoder  (src/src/encoders/word_row_encoder.hpp)                 *)
(***************************************************************************)
MaxRows == 3
MaxLetterBits == 2
MaxWordLen == 3

\* "", "a", "ab", "ba" and "Ab" (an alphabet holding an upper-case letter).
Alphabets == {<<>>, <<97>>, <<97, 98>>, <<98, 97>>, <<65, 98>>}

WordRowParams ==
    [rows : 0..MaxRows, cols : 0..(MaxLetterBits * 3), letter_bits : 0..MaxLetterBits,
     alphabet : Alphabets]

\* validate() without the test on cols.
ValidateNoColsCheck(p) ==
    /\ ~(p.rows <= 0)
    /\ ~(p.cols <= 0)
    /\ ~(p.letter_bits <= 0)
    /\ ~(Len(p.alphabet) = 0)

\* validate(): TRUE when no invalid_argument is thrown.
WordRowEncoder_validate(p) ==
    /\ ~(p.rows <= 0)
    /\ ~(p.cols <= 0)
    /\ ~(p.letter_bits <= 0)
    /\ ~(Len(p.alphabet) = 0)
    /\ ~(p.cols # p.letter_bits * (Len(p.alphabet) + 1))

WordRowEncoder_new(p) ==
    [status |-> IF WordRowEncoder_validate(p) THEN "ok" ELSE "invalid_argument",
     params |-> p]

\* std::string::find(ch): the first index holding ch, or npos (-1 here).
StringFind(str, ch) ==
    IF \E i \in 1..Len(str) : str[i] = ch
    THEN (CHOOSE i \in 1..Len(str) :
              str[i] = ch /\ \A j \in 1..(i - 1) : str[j] # ch) - 1
    ELSE -1

\* bucket_for_char without the std::tolower.
BucketNoLower(p, c) ==
    LET idx == StringFind(p.alphabet, c)
    IN  IF idx = -1 THEN Len(p.alphabet) ELSE idx

\* bucket_for_char(c): the index of the lower-cased c in alphabet, or the
\* alphabet's size.
WordRowEncoder_bucket_for_char(p, c) ==
    LET lc == ToLower(c)
        idx == StringFind(p.alphabet, lc)
    IN  IF idx = -1 THEN Len(p.alphabet) ELSE idx

\* The row loop with i <= letter_bits for i < letter_bits in the inner loop.
RECURSIVE EncodeRowsOneBitMore(_, _, _, _)
EncodeRowsOneBitMore(p, word, sdr, r) ==
    IF ~(r < p.rows) \/ r >= Len(word) THEN sdr
    ELSE LET bucket == WordRowEncoder_bucket_for_char(p, word[r + 1])
             start_col == bucket * p.letter_bits
             row_offset == r * p.cols
         IN  EncodeRowsOneBitMore(p, word,
                                  WriteOnes(sdr, row_offset + start_col,
                                            row_offset + start_col + p.letter_bits + 1),
                                  r + 1)

\* The row loop of encode, from row r on; stops at the first row beyond the word.
RECURSIVE EncodeRows(_, _, _, _)
EncodeRows(p, word, sdr, r) ==
    IF ~(r < p.rows) \/ r >= Len(word) THEN sdr
    ELSE LET bucket == WordRowEncoder_bucket_for_char(p, word[r + 1])
             start_col == bucket * p.letter_bits
             row_offset == r * p.cols
         IN  EncodeRows(p, word,
                        WriteOnes(sdr, row_offset + start_col,
                                  row_offset + start_col + p.letter_bits),
                        r + 1)

WordRowEncoder_encode(p, word) ==
    EncodeRows(p, word, [i \in 1..(p.rows * p.cols) |-> 0], 0)

NoWordCall == [op |-> "none", word |-> <<>>, sdr |-> <<>>]

InitWord ==
    /\ \E p \in WordRowParams : wenc = WordRowEncoder_new(p)
    /\ wenc_call = NoWordCall

\* The encoder a word-mode runtime is given: rows x cols is the region's input.
RuntimeWordParams == [rows |-> 2, cols |-> 3, letter_bits |-> 1, alphabet |-> <<97, 98>>]

\* The layer-0 configuration main() derives both encoders' widths from.
RuntimeLayer ==
    [num_input_rows |-> RuntimeWordParams.rows, num_input_cols |-> RuntimeWordParams.cols]

IdleWord ==
    /\ wenc = WordRowEncoder_new(RuntimeWordParams)
    /\ wenc_call = NoWordCall

\* encode(word) on the constructed encoder.
WordEncodeCall(word) ==
    /\ wenc.status = "ok"
    /\ wenc_call.op = "none"
    /\ wenc_call' = [op |-> "encode", word |-> word,
                     sdr |-> WordRowEncoder_encode(wenc.params, word)]
    /\ UNCHANGED <<wenc, notWordVars>>

(***************************************************************************)
(* TextChunker  (src/src/text/text_chunker.hpp)                            *)
(* WordChunker  (src/src/text/word_chunker.hpp)                            *)
(***************************************************************************)
MaxTextLen == 3
\* next() is called at most MaxSteps times between two resets.
MaxSteps == 4

\* An absent cursor (a null unique_ptr).
Null == [status |-> "null"]

\* TextChunker::from_string(text): throws on an empty text.
TextChunker_from_string(text) ==
    IF Len(text) = 0 THEN [status |-> "invalid_argument"]
    ELSE [status |-> "ok", text_ |-> text, pos_ |-> 0, epoch_ |-> 0, total_steps_ |-> 0]

\* tokenize without its last line: a word that ends the text is dropped.
RECURSIVE TokenizeDropsLast(_, _, _, _)
TokenizeDropsLast(text, i, out, current) ==
    IF i > Len(text) THEN out
    ELSE IF IsAlpha(text[i])
         THEN TokenizeDropsLast(text, i + 1, out, Append(current, ToLower(text[i])))
         ELSE IF Len(current) # 0
              THEN TokenizeDropsLast(text, i + 1, Append(out, current), <<>>)
              ELSE TokenizeDropsLast(text, i + 1, out, current)

\* tokenize(text): the loop over the characters from index i on, with the
\* tokens found so far (out) and the token being read (current).
RECURSIVE TokenizeFrom(_, _, _, _)
TokenizeFrom(text, i, out, current) ==
    IF i > Len(text)
    THEN (IF Len(current) # 0 THEN Append(out, current) ELSE out)
    ELSE IF IsAlpha(text[i])
         THEN TokenizeFrom(text, i + 1, out, Append(current, ToLower(text[i])))
         ELSE IF Len(current) # 0
              THEN TokenizeFrom(text, i + 1, Append(out, current), <<>>)
              ELSE TokenizeFrom(text, i + 1, out, current)

WordChunker_tokenize(text) == TokenizeFrom(text, 1, <<>>, <<>>)

\* from_string without the test on words_.empty().
FromStringNoCheck(text) ==
    [status |-> "ok", words_ |-> WordChunker_tokenize(text), pos_ |-> 0, epoch_ |-> 0,
     total_steps_ |-> 0]

\* WordChunker::from_string(text): throws when the text holds no word.
WordChunker_from_string(text) ==
    LET words == WordChunker_tokenize(text)
    IN  IF Len(words) = 0 THEN [status |-> "invalid_argument"]
        ELSE [status |-> "ok", words_ |-> words, pos_ |-> 0, epoch_ |-> 0,
              total_steps_ |-> 0]

\* A path names no file that can be opened, or a file and its content.
NoFile == [exists |-> FALSE, content |-> <<>>]
Files == {NoFile} \cup {[exists |-> TRUE, content |-> text] : text \in StringsUpTo(MaxTextLen)}

\* TextChunker::TextChunker(path): throws std::runtime_error when the file
\* cannot be opened or is empty.
TextChunker_new(file) ==
    IF ~file.exists THEN [status |-> "runtime_error", what |-> "cannot open file"]
    ELSE IF Len(file.content) = 0
         THEN [status |-> "runtime_error", what |-> "file is empty"]
         ELSE [status |-> "ok", text_ |-> file.content, pos_ |-> 0, epoch_ |-> 0,
               total_steps_ |-> 0]

\* WordChunker::WordChunker(path): throws std::runtime_error when the file
\* cannot be opened or holds no word.
WordChunker_new(file) ==
    IF ~file.exists THEN [status |-> "runtime_error", what |-> "cannot open file"]
    ELSE LET words == WordChunker_tokenize(file.content)
         IN  IF Len(words) = 0
             THEN [status |-> "runtime_error", what |-> "no words found in file"]
             ELSE [status |-> "ok", words_ |-> words, pos_ |-> 0, epoch_ |-> 0,
                   total_steps_ |-> 0]

\* next() without the wrap at the end of the sequence.
NextNoWrap(c, size) ==
    [c EXCEPT !.pos_ = c.pos_ + 1, !.total_steps_ = c.total_steps_ + 1]

\* The cursor fields after next(): ++pos_, ++total_steps_, and the wrap.
\* size is text_.size() or words_.size().
CursorAfterNext(c, size) ==
    LET pos1 == c.pos_ + 1
    IN  IF pos1 >= size
        THEN [c EXCEPT !.pos_ = 0, !.total_steps_ = c.total_steps_ + 1,
                       !.epoch_ = c.epoch_ + 1]
        ELSE [c EXCEPT !.pos_ = pos1, !.total_steps_ = c.total_steps_ + 1]

\* TextChunker::next(): the value returned and the chunker afterwards.
TextChunker_next(c) ==
    [value |-> c.text_[c.pos_ + 1], self |-> CursorAfterNext(c, Len(c.text_))]

\* WordChunker::next().
WordChunker_next(c) ==
    [value |-> c.words_[c.pos_ + 1], self |-> CursorAfterNext(c, Len(c.words_))]

\* peek() that reads one symbol too far.
PeekAhead(c) == c.text_[((c.pos_ + 1) % Len(c.text_)) + 1]

TextChunker_peek(c) == c.text_[c.pos_ + 1]
WordChunker_peek(c) == c.words_[c.pos_ + 1]

\* std::size_t is twice as wide as int (64 bits against 32 in the program).
SizeBits == 2 * IntBits
SizeModulus == 2 ^ SizeBits

\* static_cast<std::size_t>(x), and the result of a std::size_t addition.
SizeWrap(x) == x % SizeModulus

\* peek_at(offset) is called with offset in -MaxOffset..MaxOffset or at either
\* end of the int range.
MaxOffset == 4
OffsetSet == {IntMin, IntMax} \cup (-MaxOffset..MaxOffset)

\* TextChunker::peek_at(offset):
\* idx = (pos_ + static_cast<std::size_t>(offset)) % text_.size().
TextChunker_peek_at(c, offset) ==
    LET idx == SizeWrap(c.pos_ + SizeWrap(offset)) % Len(c.text_)
    IN  c.text_[idx + 1]

\* reset() that leaves total_steps_ as it is.
ResetKeepsTotalSteps(c) == [c EXCEPT !.pos_ = 0, !.epoch_ = 0]

\* reset() that leaves pos_ as it is.
ResetKeepsPosition(c) == [c EXCEPT !.epoch_ = 0, !.total_steps_ = 0]

\* reset() of either cursor.
Cursor_reset(c) == [c EXCEPT !.pos_ = 0, !.epoch_ = 0, !.total_steps_ = 0]

NoCursorCall == [op |-> "none", arg |-> 0, ret |-> 0]

\* One cursor is constructed from an in-memory text; the other is absent.
InitCursor ==
    /\ \E text \in StringsUpTo(MaxTextLen) :
          \/ chunker = TextChunker_from_string(text) /\ word_chunker = Null
          \/ chunker = Null /\ word_chunker = WordChunker_from_string(text)
    /\ cur_call = NoCursorCall

TextChunkerNextCall ==
    /\ chunker.status = "ok"
    /\ chunker.total_steps_ < MaxSteps
    /\ LET r == TextChunker_next(chunker)
       IN  /\ chunker' = r.self
           /\ cur_call' = [op |-> "next", arg |-> 0, ret |-> r.value]
    /\ UNCHANGED <<word_chunker, notCursorVars>>

WordChunkerNextCall ==
    /\ word_chunker.status = "ok"
    /\ word_chunker.total_steps_ < MaxSteps
    /\ LET r == WordChunker_next(word_chunker)
       IN  /\ word_chunker' = r.self
           /\ cur_call' = [op |-> "next", arg |-> 0, ret |-> r.value]
    /\ UNCHANGED <<chunker, notCursorVars>>

TextChunkerPeekCall ==
    /\ chunker.status = "ok"
    /\ cur_call' = [op |-> "peek", arg |-> 0, ret |-> TextChunker_peek(chunker)]
    /\ UNCHANGED <<chunker, word_chunker, notCursorVars>>

WordChunkerPeekCall ==
    /\ word_chunker.status = "ok"
    /\ cur_call' = [op |-> "peek", arg |-> 0, ret |-> WordChunker_peek(word_chunker)]
    /\ UNCHANGED <<chunker, word_chunker, notCursorVars>>

TextChunkerPeekAtCall(offset) ==
    /\ chunker.status = "ok"
    /\ cur_call' = [op |-> "peek_at", arg |-> offset,
                    ret |-> TextChunker_peek_at(chunker, offset)]
    /\ UNCHANGED <<chunker, word_chunker, notCursorVars>>

TextChunkerResetCall ==
    /\ chunker.status = "ok"
    /\ chunker' = Cursor_reset(chunker)
    /\ cur_call' = [op |-> "reset", arg |-> 0, ret |-> 0]
    /\ UNCHANGED <<word_chunker, notCursorVars>>

WordChunkerResetCall ==
    /\ word_chunker.status = "ok"
    /\ word_chunker' = Cursor_reset(word_chunker)
    /\ cur_call' = [op |-> "reset", arg |-> 0, ret |-> 0]
    /\ UNCHANGED <<chunker, notCursorVars>>

\* next() without a bound on the number of calls: the counters are the
\* machine's. total_steps_ is a size_t and wraps. epoch_ is an int, and
\* ++epoch_ at the largest int is undefined behaviour: the builds examined
\* (g++ 12, x86-64) either leave the wrapped value ("wrap": -O0, -O2, -O3) or
\* abort the process ("trap": -ftrapv).
EpochOutcomes == {"wrap", "trap"}

CursorOnMachine(c, outcome) ==
    LET d == [c EXCEPT !.total_steps_ = SizeWrap(@)]
    IN  IF d.epoch_ > IntMax
        THEN IF outcome = "wrap" THEN [d EXCEPT !.epoch_ = Wrap(@)]
             ELSE [d EXCEPT !.epoch_ = IntMax, !.status = "aborted"]
        ELSE d

TextChunkerNextForever ==
    /\ chunker.status = "ok"
    /\ LET r == TextChunker_next(chunker)
       IN  /\ \E outcome \in EpochOutcomes : chunker' = CursorOnMachine(r.self, outcome)
           /\ cur_call' = [op |-> "next", arg |-> 0, ret |-> r.value]
    /\ UNCHANGED <<word_chunker, notCursorVars>>

WordChunkerNextForever ==
    /\ word_chunker.status = "ok"
    /\ LET r == WordChunker_next(word_chunker)
       IN  /\ \E outcome \in EpochOutcomes :
                 word_chunker' = CursorOnMachine(r.self, outcome)
           /\ cur_call' = [op |-> "next", arg |-> 0, ret |-> r.value]
    /\ UNCHANGED <<chunker, notCursorVars>>

\* The texts of the cursors that are read without end: one and three
\* characters, one and two words.
ForeverTexts == {<<97>>, <<97, 44, 98>>}

InitForever ==
    /\ \E text \in ForeverTexts :
          \/ chunker = TextChunker_from_string(text) /\ word_chunker = Null
          \/ chunker = Null /\ word_chunker = WordChunker_from_string(text)
    /\ cur_call = NoCursorCall

IdleCursor ==
    /\ chunker = Null
    /\ word_chunker = Null
    /\ cur_call = NoCursorCall

\* The four ways to construct a cursor, each tried once on a state without
\* cursor; the cursor variable holds the object, or the exception thrown.
NoCursorYet == chunker = Null /\ word_chunker = Null /\ cur_call = NoCursorCall

TextChunkerCtorCall(file) ==
    /\ NoCursorYet
    /\ chunker' = TextChunker_new(file)
    /\ cur_call' = [op |-> "TextChunker", arg |-> file, ret |-> 0]
    /\ UNCHANGED <<word_chunker, notCursorVars>>

TextChunkerFromStringCall(text) ==
    /\ NoCursorYet
    /\ chunker' = TextChunker_from_string(text)
    /\ cur_call' = [op |-> "TextChunker::from_string", arg |-> text, ret |-> 0]
    /\ UNCHANGED <<word_chunker, notCursorVars>>

WordChunkerCtorCall(file) ==
    /\ NoCursorYet
    /\ word_chunker' = WordChunker_new(file)
    /\ cur_call' = [op |-> "WordChunker", arg |-> file, ret |-> 0]
    /\ UNCHANGED <<chunker, notCursorVars>>

WordChunkerFromStringCall(text) ==
    /\ NoCursorYet
    /\ word_chunker' = WordChunker_from_string(text)
    /\ cur_call' = [op |-> "WordChunker::from_string", arg |-> text, ret |-> 0]
    /\ UNCHANGED <<chunker, notCursorVars>>

(***************************************************************************)
(* HTMRegion: the external model behind region_, by the contract the       *)
(* runtime relies on (set_input, step, timestep, layer(0).snapshot()).     *)
(***************************************************************************)
\* Columns of layer 0.
NumCols == 2

RECURSIVE SortedSeq(_)
SortedSeq(S) ==
    IF S = {} THEN <<>>
    ELSE LET m == CHOOSE x \in S : \A y \in S : x <= y
         IN  <<m>> \o SortedSeq(S \ {m})

\* The layer-0 snapshots a step can leave: per column a predictive mask
\* (0: no cell predictive), or no per-column data at all, and the list of
\* the active columns. tick is the timestep that produced the snapshot.
Snapshots(tick) ==
    {[column_cell_masks |-> m, active_column_indices |-> SortedSeq(a), tick |-> tick] :
        m \in [1..NumCols -> {0, 1}], a \in SUBSET (0..(NumCols - 1))}
    \cup {[column_cell_masks |-> <<>>, active_column_indices |-> <<>>, tick |-> tick]}

\* A region of one layer built from cfg, the configuration of its layer 0:
\* [num_input_rows, num_input_cols], the input size it declares. snap is the
\* snapshot of layer 0, upper the snapshots of the layers above it.
Region_new(cfg) ==
    [cfg |-> cfg, timestep |-> 0, input |-> <<>>,
     snap |-> [column_cell_masks |-> [i \in 1..NumCols |-> 0],
               active_column_indices |-> <<>>, tick |-> 0],
     upper |-> <<>>]

\* A region of `layers` layers (at least one).
Region_new_layered(cfg, layers) ==
    [Region_new(cfg) EXCEPT !.upper = [i \in 1..(layers - 1) |-> Region_new(cfg).snap]]

Region_num_layers(r) == 1 + Len(r.upper)

\* layer(idx).snapshot().
Region_layer_snapshot(r, idx) == IF idx = 0 THEN r.snap ELSE r.upper[idx]

\* Two snapshots a layer's step can leave, all columns active: every column
\* with a predictive cell, or none.
LayerSnapshots(tick) ==
    {[column_cell_masks |-> [i \in 1..NumCols |-> m],
      active_column_indices |-> [i \in 1..NumCols |-> i - 1], tick |-> tick] :
        m \in {0, 1}}

Region_set_input(r, sdr) == [r EXCEPT !.input = sdr]

\* step(n): n ticks on the current input; snap is the snapshot it leaves.
Region_step(r, n, snap) == [r EXCEPT !.timestep = r.timestep + n, !.snap = snap]

Region_snapshot(r) == r.snap

(***************************************************************************)
(* TextRuntime  (src/src/runtime/text_runtime.cpp)                         *)
(***************************************************************************)
\* step(n) is called with n in -1..MaxCount.
MaxCount == 2
\* A runtime feeds at most MaxFed symbols.
MaxFed == 3

\* "ab" and "b,A": the words are ["ab"] and ["b", "a"].
RuntimeTexts == {<<97, 98>>, <<98, 44, 65>>}

\* The constructors without the test on the cursor.
NewWithoutNullTest(mode, cursor) ==
    [status |-> "ok",
     input_mode_ |-> mode,
     active_layer_idx_ |-> 0,
     log_text_ |-> FALSE,
     last_char_ |-> 0,
     last_word_ |-> <<>>,
     correct_predictions_ |-> 0,
     total_predictions_ |-> 0]

\* Either constructor: the mode, and the null check on the cursor.
TextRuntime_new(mode, cursor) ==
    [status |-> IF cursor = Null THEN "invalid_argument" ELSE "ok",
     input_mode_ |-> mode,
     active_layer_idx_ |-> 0,
     log_text_ |-> FALSE,
     last_char_ |-> 0,
     last_word_ |-> <<>>,
     correct_predictions_ |-> 0,
     total_predictions_ |-> 0]

\* What one iteration of step's loop did: the calls it made, in order
\* ("snapshot": layer(0).snapshot() is read; "count": the accuracy counters
\* are updated; "next": the cursor's next(); "set_input" and "step": the
\* region's), and for the prediction check the tick of the snapshot it read,
\* the cursor's total_steps, the region's timestep and the region's input at
\* that moment, and the two counts of its loop; fed_index is the cursor's
\* total_steps after the feed.
NoIteration ==
    [calls |-> <<>>, checked |-> FALSE, snap_tick |-> -1, steps_at_check |-> -1,
     time_at_check |-> -1, input_at_check |-> <<>>, total_active |-> -1,
     predicted_and_active |-> -1, fed_index |-> -1]

NoRet == [num |-> -1, den |-> -1]

\* No string returned: a value no std::string has.
NoString == <<-1>>

\* todo: the iterations the step call in progress has left; requested: the sum
\* of the positive counts step was called with; last: its last iteration; ret
\* and context: what prediction_accuracy() or input_context() returned, if it
\* was the last call made; op: the last call made, for step count_positive:
\* whether its count was positive, and for input_size(), input_epoch() and
\* input_total_steps() value: what it returned; dataless: how many of the
\* region's steps so far left a snapshot without per-column data; thrown: the
\* call of the region whose exception ended the last step call ("none": the
\* call returned or is in progress); history and model_calls, kept where a
\* run is compared with another: the snapshots the region's steps have left
\* and the calls the iterations have made, in order.
NoRuntimeCall ==
    [todo |-> 0, requested |-> 0, last |-> NoIteration, ret |-> NoRet,
     context |-> NoString, op |-> "none", count_positive |-> FALSE, value |-> -1,
     dataless |-> 0, thrown |-> "none", history |-> <<>>, model_calls |-> <<>>]

\* The runtime with what it owns: w.rt, w.chunker, w.word_chunker, w.region,
\* and w.last, the record of the iteration in progress.
World == [rt |-> rt, chunker |-> chunker, word_chunker |-> word_chunker,
          region |-> region, last |-> NoIteration]

\* input_size().
TextRuntime_input_size(w) ==
    IF w.rt.input_mode_ = "Character" /\ w.chunker # Null THEN Len(w.chunker.text_)
    ELSE IF w.word_chunker # Null THEN Len(w.word_chunker.words_)
    ELSE 0

\* input_total_steps().
TextRuntime_input_total_steps(w) ==
    IF w.rt.input_mode_ = "Character" /\ w.chunker # Null THEN w.chunker.total_steps_
    ELSE IF w.word_chunker # Null THEN w.word_chunker.total_steps_
    ELSE 0

\* input_epoch() with the test on the mode inverted.
InputEpochModeSwapped(w) ==
    IF w.rt.input_mode_ = "WordRows" /\ w.chunker # Null THEN w.chunker.epoch_
    ELSE IF w.word_chunker # Null THEN w.word_chunker.epoch_
    ELSE 0

\* input_epoch().
TextRuntime_input_epoch(w) ==
    IF w.rt.input_mode_ = "Character" /\ w.chunker # Null THEN w.chunker.epoch_
    ELSE IF w.word_chunker # Null THEN w.word_chunker.epoch_
    ELSE 0

\* Lines 59-66: the loop over snap.active_column_indices from index i on, with
\* the counts so far.
RECURSIVE CountActive(_, _, _, _)
CountActive(snap, i, total_active, predicted_and_active) ==
    IF i > Len(snap.active_column_indices)
    THEN [total_active |-> total_active, predicted_and_active |-> predicted_and_active]
    ELSE LET idx == snap.active_column_indices[i]
         IN  IF idx >= 0 /\ idx < Len(snap.column_cell_masks)
             THEN CountActive(snap, i + 1, total_active + 1,
                              IF snap.column_cell_masks[idx + 1] # 0
                              THEN predicted_and_active + 1
                              ELSE predicted_and_active)
             ELSE CountActive(snap, i + 1, total_active, predicted_and_active)

\* The test of line 67 with >= for >.
CorrectAtHalf(total_active, predicted_and_active) ==
    total_active > 0 /\ predicted_and_active >= total_active \div 2

\* Line 67: the step counts as correct.
IsCorrect(total_active, predicted_and_active) ==
    total_active > 0 /\ predicted_and_active > total_active \div 2

\* The prediction check gated by total_predictions_ > 0 alone.
PredictionCheckAfterFirstCount(w) ==
    IF w.rt.total_predictions_ > 0
    THEN LET snap == Region_snapshot(w.region)
         IN  IF Len(snap.column_cell_masks) # 0
             THEN [w EXCEPT !.rt.total_predictions_ = @ + 1,
                            !.last.checked = TRUE,
                            !.last.calls = @ \o <<"snapshot", "count">>]
             ELSE [w EXCEPT !.last.checked = TRUE,
                            !.last.calls = Append(@, "snapshot")]
    ELSE w

\* The prediction check reading the snapshot of the active layer.
PredictionCheckOnActiveLayer(w) ==
    IF w.rt.total_predictions_ > 0 \/ w.region.timestep > 0
    THEN LET snap == Region_layer_snapshot(w.region, w.rt.active_layer_idx_)
             seen == [w EXCEPT
                        !.last.calls = Append(@, "snapshot"),
                        !.last.checked = TRUE,
                        !.last.snap_tick = snap.tick,
                        !.last.steps_at_check = TextRuntime_input_total_steps(w),
                        !.last.time_at_check = w.region.timestep,
                        !.last.input_at_check = w.region.input]
         IN  IF Len(snap.column_cell_masks) # 0
             THEN LET c == CountActive(snap, 1, 0, 0)
                  IN  [seen EXCEPT
                         !.rt.correct_predictions_ =
                             IF IsCorrect(c.total_active, c.predicted_and_active)
                             THEN @ + 1 ELSE @,
                         !.rt.total_predictions_ = @ + 1,
                         !.last.calls = Append(@, "count"),
                         !.last.total_active = c.total_active,
                         !.last.predicted_and_active = c.predicted_and_active]
             ELSE seen
    ELSE w

\* Lines 53-72: the prediction check of one iteration.
PredictionCheck(w) ==
    IF w.rt.total_predictions_ > 0 \/ w.region.timestep > 0
    THEN LET snap == Region_snapshot(w.region)
             seen == [w EXCEPT
                        !.last.calls = Append(@, "snapshot"),
                        !.last.checked = TRUE,
                        !.last.snap_tick = snap.tick,
                        !.last.steps_at_check = TextRuntime_input_total_steps(w),
                        !.last.time_at_check = w.region.timestep,
                        !.last.input_at_check = w.region.input]
         IN  IF Len(snap.column_cell_masks) # 0
             THEN LET c == CountActive(snap, 1, 0, 0)
                  IN  [seen EXCEPT
                         !.rt.correct_predictions_ =
                             IF IsCorrect(c.total_active, c.predicted_and_active)
                             THEN @ + 1 ELSE @,
                         !.rt.total_predictions_ = @ + 1,
                         !.last.calls = Append(@, "count"),
                         !.last.total_active = c.total_active,
                         !.last.predicted_and_active = c.predicted_and_active]
             ELSE seen
    ELSE w

\* The feed without region_->step(1).
FeedNoStep(w, snap) ==
    IF w.rt.input_mode_ = "Character"
    THEN LET r == TextChunker_next(w.chunker)
         IN  [w EXCEPT !.chunker = r.self, !.rt.last_char_ = r.value,
                       !.region = Region_set_input(w.region, ScalarEncoder_encode(enc, r.value)),
                       !.last.calls = @ \o <<"next", "set_input">>,
                       !.last.fed_index = r.self.total_steps_]
    ELSE LET r == WordChunker_next(w.word_chunker)
         IN  [w EXCEPT !.word_chunker = r.self, !.rt.last_word_ = r.value,
                       !.region = Region_set_input(w.region,
                                      WordRowEncoder_encode(wenc.params, r.value)),
                       !.last.calls = @ \o <<"next", "set_input">>,
                       !.last.fed_index = r.self.total_steps_]

\* Lines 74-86: pull the next symbol, encode it, set it as the region's input
\* and step the region once; snap is the snapshot that step leaves.
Feed(w, snap) ==
    IF w.rt.input_mode_ = "Character"
    THEN IF w.chunker = Null THEN w
         ELSE LET r == TextChunker_next(w.chunker)
                  char_val == r.value
                  sdr == ScalarEncoder_encode(enc, char_val)
              IN  [w EXCEPT !.chunker = r.self,
                            !.rt.last_char_ = char_val,
                            !.region = Region_step(Region_set_input(w.region, sdr), 1, snap),
                            !.last.calls = @ \o <<"next", "set_input", "step">>,
                            !.last.fed_index = r.self.total_steps_]
    ELSE IF w.word_chunker = Null THEN w
         ELSE LET r == WordChunker_next(w.word_chunker)
                  sdr == WordRowEncoder_encode(wenc.params, r.value)
              IN  [w EXCEPT !.word_chunker = r.self,
                            !.rt.last_word_ = r.value,
                            !.region = Region_step(Region_set_input(w.region, sdr), 1, snap),
                            !.last.calls = @ \o <<"next", "set_input", "step">>,
                            !.last.fed_index = r.self.total_steps_]

\* Lines 74-85 when the region throws from set_input or from step (at): the
\* cursor has yielded its symbol and the last symbol is stored; a set_input
\* that throws leaves the region as it was, a step that throws leaves it with
\* the new input and no tick made.
FeedFailing(w, at) ==
    LET calls == IF at = "set_input" THEN <<"next", "set_input">>
                 ELSE <<"next", "set_input", "step">>
    IN  IF w.rt.input_mode_ = "Character"
        THEN LET r == TextChunker_next(w.chunker)
                 sdr == ScalarEncoder_encode(enc, r.value)
             IN  [w EXCEPT !.chunker = r.self,
                           !.rt.last_char_ = r.value,
                           !.region = IF at = "set_input" THEN @
                                      ELSE Region_set_input(@, sdr),
                           !.last.calls = @ \o calls,
                           !.last.fed_index = r.self.total_steps_]
        ELSE LET r == WordChunker_next(w.word_chunker)
                 sdr == WordRowEncoder_encode(wenc.params, r.value)
             IN  [w EXCEPT !.word_chunker = r.self,
                           !.rt.last_word_ = r.value,
                           !.region = IF at = "set_input" THEN @
                                      ELSE Region_set_input(@, sdr),
                           !.last.calls = @ \o calls,
                           !.last.fed_index = r.self.total_steps_]

\* The loop body with the check after the feed.
FeedThenCheck(w, snap) == PredictionCheck(Feed(w, snap))

\* The loop body with the check made twice.
CheckTwiceThenFeed(w, snap) == Feed(PredictionCheck(PredictionCheck(w)), snap)

\* Lines 52-97: one iteration of the loop of step: the check, then the feed.
StepIteration(w, snap) == Feed(PredictionCheck(w), snap)

\* Lines 154-156: num_layers() (region_ is never null in a constructed runtime).
TextRuntime_num_layers(w) == Region_num_layers(w.region)

\* set_active_layer(idx) that also clears the accuracy counters.
SetActiveLayerClearsCounters(w, idx) ==
    IF idx >= 0 /\ idx < TextRuntime_num_layers(w)
    THEN [w.rt EXCEPT !.active_layer_idx_ = idx, !.correct_predictions_ = 0,
                      !.total_predictions_ = 0]
    ELSE w.rt

\* Lines 158-162: set_active_layer(idx); the runtime's fields afterwards.
TextRuntime_set_active_layer(w, idx) ==
    IF idx >= 0 /\ idx < TextRuntime_num_layers(w)
    THEN [w.rt EXCEPT !.active_layer_idx_ = idx]
    ELSE w.rt

\* Lines 40-45: snapshot(), the snapshot of the active layer; {} is the
\* snapshot without data, of tick -1 here.
TextRuntime_snapshot(w) ==
    IF w.rt.active_layer_idx_ < 0 \/ w.rt.active_layer_idx_ >= TextRuntime_num_layers(w)
    THEN [column_cell_masks |-> <<>>, active_column_indices |-> <<>>, tick |-> -1]
    ELSE Region_layer_snapshot(w.region, w.rt.active_layer_idx_)

\* Lines 139-142: name() without the name_ it starts with:
\* " (Layer " + to_string(active_layer_idx_) + "/" + to_string(num_layers()) + ")",
\* for numbers of one digit.
TextRuntime_name(w) ==
    <<32, 40, 76, 97, 121, 101, 114, 32, 48 + w.rt.active_layer_idx_, 47,
      48 + TextRuntime_num_layers(w), 41>>

\* Lines 144-152: layer_options(), the ids of the options.
TextRuntime_layer_options(w) == [i \in 1..TextRuntime_num_layers(w) |-> i - 1]

\* Lines 52-97: the loop of step(n) from iteration i (from 1) on; snaps[i] is
\* the snapshot the region's step of iteration i leaves. w.last.calls gathers
\* the calls of all the iterations.
RECURSIVE StepFrom(_, _, _, _)
StepFrom(w, i, n, snaps) ==
    IF ~(i <= n) THEN w
    ELSE StepFrom(StepIteration(w, snaps[i]), i + 1, n, snaps)

\* Lines 47-98: step(n) as one call.
TextRuntime_step(w, n, snaps) ==
    IF n <= 0
       \/ (w.rt.input_mode_ = "Character" /\ w.chunker = Null)
       \/ (w.rt.input_mode_ = "WordRows" /\ w.word_chunker = Null)
    THEN w
    ELSE StepFrom(w, 1, n, snaps)

\* prediction_accuracy() without the test on total_predictions_ == 0.
AccuracyNoZeroTest(r) == [num |-> r.correct_predictions_, den |-> r.total_predictions_]

\* Lines 164-167: prediction_accuracy(), the double as the fraction num / den.
TextRuntime_prediction_accuracy(r) ==
    IF r.total_predictions_ = 0 THEN [num |-> 0, den |-> 1]
    ELSE [num |-> r.correct_predictions_, den |-> r.total_predictions_]

\* Lines 193-197: printable(c), c a char code in 0..255 (a code above 126 is
\* replaced whether char is signed or not).
TextRuntime_printable(c) ==
    IF c = 10 \/ c = 13 \/ c = 9 THEN 32
    ELSE IF c < 32 \/ c > 126 THEN 46
    ELSE c

\* const int ctx of text_context and of word_context.
TextCtx == 10
WordCtx == 4

\* Lines 209 and 230: idx = (cur + size + static_cast<std::size_t>(j)) % size.
ContextIndex(cur, size, j) == SizeWrap(SizeWrap(cur + size) + SizeWrap(j)) % size

\* Lines 208-218: the loop of text_context from j on; '[' is 91, ']' is 93.
RECURSIVE TextContextFrom(_, _, _, _)
TextContextFrom(text, cur, j, result) ==
    IF ~(j <= TextCtx) THEN result
    ELSE LET idx == ContextIndex(cur, Len(text), j)
             c == TextRuntime_printable(text[idx + 1])
         IN  TextContextFrom(text, cur, j + 1,
                             IF j = 0 THEN result \o <<91, c, 93>> ELSE result \o <<c>>)

\* Lines 199-220: text_context().
TextRuntime_text_context(w) ==
    IF w.chunker = Null \/ Len(w.chunker.text_) = 0 THEN <<>>
    ELSE LET text == w.chunker.text_
             pos == w.chunker.pos_
             cur == IF pos = 0 THEN Len(text) - 1 ELSE pos - 1
         IN  TextContextFrom(text, cur, -TextCtx, <<>>)

\* Lines 229-240: the loop of word_context from j on; ' ' is 32.
RECURSIVE WordContextFrom(_, _, _, _)
WordContextFrom(words, cur, j, result) ==
    IF ~(j <= WordCtx) THEN result
    ELSE LET idx == ContextIndex(cur, Len(words), j)
             word == words[idx + 1]
             entry == IF j = 0 THEN <<91>> \o word \o <<93>> ELSE word
         IN  WordContextFrom(words, cur, j + 1,
                             result \o entry \o (IF j < WordCtx THEN <<32>> ELSE <<>>))

\* Lines 222-242: word_context().
TextRuntime_word_context(w) ==
    IF w.word_chunker = Null \/ Len(w.word_chunker.words_) = 0 THEN <<>>
    ELSE LET words == w.word_chunker.words_
             pos == w.word_chunker.pos_
             cur == IF pos = 0 THEN Len(words) - 1 ELSE pos - 1
         IN  WordContextFrom(words, cur, -WordCtx, <<>>)

\* Lines 187-191: input_context().
TextRuntime_input_context(w) ==
    IF w.rt.input_mode_ = "Character" /\ w.chunker # Null THEN TextRuntime_text_context(w)
    ELSE IF w.word_chunker # Null THEN TextRuntime_word_context(w)
    ELSE <<>>

\* A runtime constructed over one cursor (or a null one, which throws), its
\* encoders and a fresh region.
InitRuntime ==
    /\ \E text \in RuntimeTexts, absent \in BOOLEAN :
          \/ /\ chunker = IF absent THEN Null ELSE TextChunker_from_string(text)
             /\ word_chunker = Null
             /\ rt = TextRuntime_new("Character", chunker)
          \/ /\ chunker = Null
             /\ word_chunker = IF absent THEN Null ELSE WordChunker_from_string(text)
             /\ rt = TextRuntime_new("WordRows", word_chunker)
    /\ cur_call = NoCursorCall
    /\ region = Region_new(RuntimeLayer)
    /\ rt_call = NoRuntimeCall

\* The regions of the runtime a GUI drives have 1..MaxLayers layers, and it is
\* read up to MaxGuiFed symbols.
MaxLayers == 2
MaxGuiFed == 2

\* A constructed runtime over a region of several layers.
InitLayered ==
    /\ \E text \in RuntimeTexts :
          \/ /\ chunker = TextChunker_from_string(text)
             /\ word_chunker = Null
             /\ rt = TextRuntime_new("Character", chunker)
          \/ /\ chunker = Null
             /\ word_chunker = WordChunker_from_string(text)
             /\ rt = TextRuntime_new("WordRows", word_chunker)
    /\ cur_call = NoCursorCall
    /\ \E layers \in 1..MaxLayers : region = Region_new_layered(RuntimeLayer, layers)
    /\ rt_call = NoRuntimeCall

\* A runtime constructed by a caller of the constructors of lines 10-38: a
\* region configuration, a cursor and an encoder, each chosen by the caller.
InitWired ==
    /\ \E text \in RuntimeTexts :
          \/ /\ chunker = TextChunker_from_string(text)
             /\ word_chunker = Null
             /\ rt = TextRuntime_new("Character", chunker)
          \/ /\ chunker = Null
             /\ word_chunker = WordChunker_from_string(text)
             /\ rt = TextRuntime_new("WordRows", word_chunker)
    /\ cur_call = NoCursorCall
    /\ \E cfg \in [num_input_rows : 1..MaxRows, num_input_cols : 1..MaxRows] :
          region = Region_new(cfg)
    /\ rt_call = NoRuntimeCall

IdleRuntime ==
    /\ rt = TextRuntime_new("Character", Null)
    /\ region = Region_new(RuntimeLayer)
    /\ rt_call = NoRuntimeCall

\* step(n) whose loop runs its body once before it tests i < n.
StepCallDoWhile(n) ==
    /\ rt.status = "ok"
    /\ rt_call.todo = 0
    /\ TextRuntime_input_total_steps(World) + Max2(n, 1) <= MaxFed
    /\ rt_call' = [rt_call EXCEPT !.todo = Max2(n, 1), !.ret = NoRet, !.context = NoString,
                                  !.requested = @ + Max2(n, 0),
                                  !.op = "step", !.count_positive = n > 0, !.value = -1,
                                       !.thrown = "none"]
    /\ UNCHANGED <<rt, region, chunker, word_chunker, notRuntimeVars>>

\* step(n) that clears the accuracy counters on entry.
StepCallClearsCounters(n) ==
    /\ rt.status = "ok"
    /\ rt_call.todo = 0
    /\ TextRuntime_input_total_steps(World) + Max2(n, 0) <= MaxFed
    /\ rt_call' = [rt_call EXCEPT !.todo = Max2(n, 0), !.ret = NoRet,
                                  !.context = NoString,
                                  !.requested = @ + Max2(n, 0),
                                  !.op = "step", !.count_positive = n > 0, !.value = -1,
                                       !.thrown = "none"]
    /\ rt' = [rt EXCEPT !.correct_predictions_ = 0, !.total_predictions_ = 0]
    /\ UNCHANGED <<region, chunker, word_chunker, notRuntimeVars>>

\* step(n) is entered: lines 47-50 return at once, or the loop starts.
StepCall(n) ==
    /\ rt.status = "ok"
    /\ rt_call.todo = 0
    /\ TextRuntime_input_total_steps(World) + Max2(n, 0) <= MaxFed
    /\ IF n <= 0
          \/ (rt.input_mode_ = "Character" /\ chunker = Null)
          \/ (rt.input_mode_ = "WordRows" /\ word_chunker = Null)
       THEN rt_call' = [rt_call EXCEPT !.ret = NoRet, !.context = NoString,
                                       !.op = "step", !.count_positive = n > 0, !.value = -1,
                                       !.thrown = "none"]
       ELSE rt_call' = [rt_call EXCEPT !.todo = n, !.ret = NoRet, !.context = NoString,
                                       !.requested = @ + n,
                                       !.op = "step", !.count_positive = n > 0, !.value = -1,
                                       !.thrown = "none"]
    /\ UNCHANGED <<rt, region, chunker, word_chunker, notRuntimeVars>>

\* One iteration of the loop of the step call in progress.
StepLoop ==
    /\ rt_call.todo > 0
    /\ \E snap \in Snapshots(region.timestep + 1) :
          \E w \in {StepIteration(World, snap)} :
              /\ rt' = w.rt
              /\ chunker' = w.chunker
              /\ word_chunker' = w.word_chunker
              /\ region' = w.region
              /\ rt_call' = [rt_call EXCEPT
                                !.todo = @ - 1, !.last = w.last,
                                !.dataless = IF Len(w.region.snap.column_cell_masks) = 0
                                             THEN @ + 1 ELSE @]
    /\ UNCHANGED notRuntimeVars

\* An iteration whose exception is caught inside the loop, which goes on.
StepLoopSwallows(at) ==
    /\ rt_call.todo > 0
    /\ \E w \in {FeedFailing(PredictionCheck(World), at)} :
          /\ rt' = w.rt
          /\ chunker' = w.chunker
          /\ word_chunker' = w.word_chunker
          /\ region' = w.region
          /\ rt_call' = [rt_call EXCEPT !.todo = @ - 1, !.last = w.last, !.thrown = at]
    /\ UNCHANGED notRuntimeVars

\* An iteration of the loop in which the region's set_input or step throws:
\* step has no handler, so the exception leaves the loop and the call.
StepLoopFails(at) ==
    /\ rt_call.todo > 0
    /\ \E w \in {FeedFailing(PredictionCheck(World), at)} :
          /\ rt' = w.rt
          /\ chunker' = w.chunker
          /\ word_chunker' = w.word_chunker
          /\ region' = w.region
          /\ rt_call' = [rt_call EXCEPT !.todo = 0, !.last = w.last, !.thrown = at]
    /\ UNCHANGED notRuntimeVars

\* prediction_accuracy() is called between two step calls.
PredictionAccuracyCall ==
    /\ rt.status = "ok"
    /\ rt_call.todo = 0
    /\ rt_call' = [rt_call EXCEPT !.ret = TextRuntime_prediction_accuracy(rt),
                                  !.context = NoString,
                                  !.op = "prediction_accuracy", !.count_positive = FALSE,
                                  !.value = -1]
    /\ UNCHANGED <<rt, region, chunker, word_chunker, notRuntimeVars>>

\* input_context() is called between two step calls.
InputContextCall ==
    /\ rt.status = "ok"
    /\ rt_call.todo = 0
    /\ rt_call' = [rt_call EXCEPT !.context = TextRuntime_input_context(World),
                                  !.ret = NoRet,
                                  !.op = "input_context", !.count_positive = FALSE,
                                  !.value = -1]
    /\ UNCHANGED <<rt, region, chunker, word_chunker, notRuntimeVars>>

\* input_size(), input_epoch() or input_total_steps() is called between two
\* step calls and returns value.
InputQuery(name, value) ==
    /\ rt.status = "ok"
    /\ rt_call.todo = 0
    /\ rt_call' = [rt_call EXCEPT !.ret = NoRet, !.context = NoString,
                                  !.op = name, !.count_positive = FALSE,
                                  !.value = value]
    /\ UNCHANGED <<rt, region, chunker, word_chunker, notRuntimeVars>>

InputSizeCall == InputQuery("input_size", TextRuntime_input_size(World))
InputEpochCall == InputQuery("input_epoch", TextRuntime_input_epoch(World))
InputTotalStepsCall == InputQuery("input_total_steps", TextRuntime_input_total_steps(World))

(***************************************************************************)
(* The specifications.                                                     *)
(***************************************************************************)
InitS == InitScalar /\ IdleWord /\ IdleCursor /\ IdleRuntime
NextS ==
    \/ \E value \in ValSet : EncodeCall(value)
    \/ \E val_a, val_b \in ValSet : OverlapCall(val_a, val_b)
SpecScalar == InitS /\ [][NextS]_vars

InitD == InitDefault /\ IdleWord /\ IdleCursor /\ IdleRuntime
NextD ==
    \/ \E value \in DefaultValues : EncodeCall(value)
    \/ \E pair \in DefaultPairs : OverlapCall(pair[1], pair[2])
SpecDefault == InitD /\ [][NextD]_vars

InitW == IdleScalar /\ InitWord /\ IdleCursor /\ IdleRuntime
NextW == \E word \in StringsUpTo(MaxWordLen) : WordEncodeCall(word)
SpecWord == InitW /\ [][NextW]_vars

InitC == IdleScalar /\ IdleWord /\ InitCursor /\ IdleRuntime
NextC ==
    \/ TextChunkerNextCall
    \/ WordChunkerNextCall
    \/ TextChunkerPeekCall
    \/ WordChunkerPeekCall
    \/ \E offset \in OffsetSet : TextChunkerPeekAtCall(offset)
    \/ TextChunkerResetCall
    \/ WordChunkerResetCall
SpecCursor == InitC /\ [][NextC]_vars

\* A cursor whose owner calls next() again and again.
InitF == IdleScalar /\ IdleWord /\ InitForever /\ IdleRuntime
NextF ==
    \/ TextChunkerNextForever
    \/ WordChunkerNextForever
SpecForever == InitF /\ [][NextF]_vars /\ WF_vars(NextF)

InitK == IdleScalar /\ IdleWord /\ IdleCursor /\ IdleRuntime
NextK ==
    \/ \E file \in Files : TextChunkerCtorCall(file)
    \/ \E text \in StringsUpTo(MaxTextLen) : TextChunkerFromStringCall(text)
    \/ \E file \in Files : WordChunkerCtorCall(file)
    \/ \E text \in StringsUpTo(MaxTextLen) : WordChunkerFromStringCall(text)
SpecConstruct == InitK /\ [][NextK]_vars

Init == IdleScalar /\ IdleWord /\ InitRuntime
Next ==
    \/ \E n \in -1..MaxCount : StepCall(n)
    \/ StepLoop
    \/ PredictionAccuracyCall
    \/ InputContextCall
    \/ InputSizeCall
    \/ InputEpochCall
    \/ InputTotalStepsCall
Spec == Init /\ [][Next]_vars

\* One iteration of the loop of step over a region of several layers: the
\* region's step leaves a snapshot in every layer.
StepLoopLayered ==
    /\ rt_call.todo > 0
    /\ \E snap \in LayerSnapshots(region.timestep + 1),
          upper \in [1..Len(region.upper) -> LayerSnapshots(region.timestep + 1)] :
          \E w \in {StepIteration(World, snap)} :
              /\ rt' = w.rt
              /\ chunker' = w.chunker
              /\ word_chunker' = w.word_chunker
              /\ region' = [w.region EXCEPT !.upper = upper]
              /\ rt_call' = [rt_call EXCEPT !.todo = @ - 1, !.last = w.last]
    /\ UNCHANGED notRuntimeVars

\* step(1) as the GUI calls it, while symbols are left to read.
GuiStepCall ==
    /\ TextRuntime_input_total_steps(World) < MaxGuiFed
    /\ StepCall(1)

\* set_active_layer(idx) is called between two step calls.
SetActiveLayerCall(idx) ==
    /\ rt.status = "ok"
    /\ rt_call.todo = 0
    /\ rt' = TextRuntime_set_active_layer(World, idx)
    /\ rt_call' = [rt_call EXCEPT !.ret = NoRet, !.context = NoString,
                                  !.op = "set_active_layer", !.count_positive = FALSE,
                                  !.value = idx]
    /\ UNCHANGED <<region, chunker, word_chunker, notRuntimeVars>>

\* set_log_text(enabled) is called between two step calls.
SetLogTextCall(enabled) ==
    /\ rt.status = "ok"
    /\ rt_call.todo = 0
    /\ rt' = [rt EXCEPT !.log_text_ = enabled]
    /\ rt_call' = [rt_call EXCEPT !.ret = NoRet, !.context = NoString,
                                  !.op = "set_log_text", !.count_positive = FALSE,
                                  !.value = IF enabled THEN 1 ELSE 0]
    /\ UNCHANGED <<region, chunker, word_chunker, notRuntimeVars>>

\* snapshot() returns the snapshot of the active layer (value: its tick).
SnapshotCall == InputQuery("snapshot", TextRuntime_snapshot(World).tick)

\* layer_options() returns one option per layer (value: how many).
LayerOptionsCall == InputQuery("layer_options", Len(TextRuntime_layer_options(World)))

\* name() is called between two step calls.
NameCall ==
    /\ rt.status = "ok"
    /\ rt_call.todo = 0
    /\ rt_call' = [rt_call EXCEPT !.context = TextRuntime_name(World),
                                  !.ret = NoRet,
                                  !.op = "name", !.count_positive = FALSE,
                                  !.value = -1]
    /\ UNCHANGED <<rt, region, chunker, word_chunker, notRuntimeVars>>

\* The runtime as a GUI drives it: single steps, layer selection, logging
\* switch and the accessors.
InitGui == IdleScalar /\ IdleWord /\ InitLayered
NextGui ==
    \/ GuiStepCall
    \/ StepLoopLayered
    \/ \E idx \in -1..MaxLayers : SetActiveLayerCall(idx)
    \/ \E enabled \in BOOLEAN : SetLogTextCall(enabled)
    \/ SnapshotCall
    \/ LayerOptionsCall
    \/ NameCall
    \/ PredictionAccuracyCall
    \/ InputContextCall
    \/ InputSizeCall
    \/ InputEpochCall
    \/ InputTotalStepsCall
SpecGui == InitGui /\ [][NextGui]_vars

\* One iteration of the loop of step, the snapshot and the calls recorded;
\* the region's step leaves one of the two snapshots of LayerSnapshots or one
\* without per-column data.
StepLoopRecorded ==
    /\ rt_call.todo > 0
    /\ \E snap \in LayerSnapshots(region.timestep + 1)
                      \cup {[column_cell_masks |-> <<>>, active_column_indices |-> <<>>,
                             tick |-> region.timestep + 1]} :
          \E w \in {StepIteration(World, snap)} :
              /\ rt' = w.rt
              /\ chunker' = w.chunker
              /\ word_chunker' = w.word_chunker
              /\ region' = w.region
              /\ rt_call' = [rt_call EXCEPT
                                !.todo = @ - 1, !.last = w.last,
                                !.dataless = IF Len(snap.column_cell_masks) = 0
                                             THEN @ + 1 ELSE @,
                                !.history = Append(@, snap),
                                !.model_calls = @ \o w.last.calls]
    /\ UNCHANGED notRuntimeVars

\* The runtime stepped by calls of any positive counts, as the headless loop
\* of main.cpp:271-283 does with step(1).
NextSplit ==
    \/ \E n \in 1..MaxCount : StepCall(n)
    \/ StepLoopRecorded
SpecSplit == Init /\ [][NextSplit]_vars

\* The runtime over a region whose calls can throw.
NextFail ==
    \/ \E n \in 1..MaxCount : StepCall(n)
    \/ StepLoop
    \/ \E at \in {"set_input", "step"} : StepLoopFails(at)
SpecFail == Init /\ [][NextFail]_vars

InitWire == IdleScalar /\ IdleWord /\ InitWired
NextWire ==
    \/ \E n \in 1..MaxCount : StepCall(n)
    \/ StepLoop
SpecWire == InitWire /\ [][NextWire]_vars

(***************************************************************************)
(* Properties of ScalarEncoder, under SpecScalar.                          *)
(***************************************************************************)
\* The vector of length n whose 1s are exactly the bits [start, start + w).
Window(start, w, n) == [i \in 1..n |-> IF start < i /\ i <= start + w THEN 1 ELSE 0]

EncodeReturned == enc.status = "ok" /\ enc_call.op = "encode"

\* C1: for every configuration validate() accepts and every int value,
\* encode(value) writes only inside the vector and returns a vector of length n
\* whose entries are 0 or 1 and exactly w of which are 1.
C1_EncodeHasExactlyWOnes ==
    EncodeReturned =>
        /\ ~enc_call.oob
        /\ Len(enc_call.sdr) = enc.params.n
        /\ \A i \in 1..Len(enc_call.sdr) : enc_call.sdr[i] \in {0, 1}
        /\ PopCount(enc_call.sdr) = enc.params.w

\* C9: encode(v) returns what encode(min_val) returns for every v < min_val,
\* and what encode(max_val) returns for every v > max_val.
C9_ClampedValuesEncodeAsBounds ==
    EncodeReturned =>
        /\ enc_call.a < enc.params.min_val =>
              enc_call.sdr = ScalarEncoder_encode(enc, enc.params.min_val)
        /\ enc_call.a > enc.params.max_val =>
              enc_call.sdr = ScalarEncoder_encode(enc, enc.params.max_val)

\* A value below min_val was encoded by an encoder whose window moves
\* (max_val > min_val, n > w, no overflow in the range).
C9_Witness ==
    /\ EncodeReturned
    /\ enc.ub = "none"
    /\ enc.params.max_val > enc.params.min_val
    /\ enc.params.n > enc.params.w
    /\ enc_call.a < enc.params.min_val
    /\ enc_call.sdr = Window(0, enc.params.w, enc.params.n)

\* C10: for every configuration validate() accepts, encode(min_val) sets
\* exactly the bits [0, w) and encode(max_val) sets exactly the bits [n-w, n).
\* (With max_val = min_val the two calls are the same call, and the window is
\* [0, w): the second half is stated for max_val > min_val.)
C10_MinAndMaxWindows ==
    EncodeReturned =>
        /\ enc_call.a = enc.params.min_val =>
              enc_call.sdr = Window(0, enc.params.w, enc.params.n)
        /\ (enc_call.a = enc.params.max_val /\ enc.params.max_val > enc.params.min_val) =>
              enc_call.sdr = Window(enc.params.n - enc.params.w, enc.params.w, enc.params.n)

\* overlap(a, b) has encoded a and b.
OverlapReturned == enc.status = "ok" /\ enc_call.op = "overlap"

\* C11: for every configuration validate() accepts and all a <= b in
\* [min_val, max_val], the window start encode computes for a is at most the
\* one it computes for b.
C11_StartNeverMovesLeft ==
    (/\ OverlapReturned
     /\ enc.params.min_val <= enc_call.a
     /\ enc_call.a <= enc_call.b
     /\ enc_call.b <= enc.params.max_val) =>
        enc_call.start_a <= enc_call.start_b

\* C21: overlap(a, b) is the number of positions at which encode(a) and
\* encode(b) both hold a 1, and it is w whenever a = b, for every int a.
C21_OverlapCountsSharedOnes ==
    OverlapReturned =>
        LET sdr_a == ScalarEncoder_encode(enc, enc_call.a)
            sdr_b == ScalarEncoder_encode(enc, enc_call.b)
        IN  /\ enc_call.count =
                  Cardinality({i \in 1..enc.params.n : sdr_a[i] = 1 /\ sdr_b[i] = 1})
            /\ enc_call.a = enc_call.b => enc_call.count = enc.params.w

\* The reference window start for value under params p, in exact arithmetic:
\* 0 when max_val = min_val, else floor((v - min_val) * num_buckets /
\* (max_val - min_val) + 1/2) for v the value clamped to [min_val, max_val].
ReferenceStart(p, value) ==
    LET v == Max2(p.min_val, Min2(value, p.max_val))
        range == p.max_val - p.min_val
        num_buckets == p.n - p.w
    IN  IF range = 0 THEN 0
        ELSE (2 * (v - p.min_val) * num_buckets + range) \div (2 * range)

\* C30: for every configuration validate() accepts and every value, the window
\* start encode uses is the reference start; it lies in [0, num_buckets],
\* exactly the bits [start, start + w) are set and no index outside [0, n) is
\* written, also when max_val - min_val does not fit an int.
C30_StartIsReferenceStart ==
    EncodeReturned =>
        /\ enc_call.start_a = ReferenceStart(enc.params, enc_call.a)
        /\ 0 <= enc_call.start_a
        /\ enc_call.start_a <= enc.params.n - enc.params.w
        /\ enc_call.sdr = Window(enc_call.start_a, enc.params.w, enc.params.n)
        /\ ~enc_call.oob

\* C18: construction throws invalid_argument exactly when n <= 0, w <= 0,
\* w > n or max_val < min_val; every other configuration constructs.
C18_ScalarConstructionFails ==
    /\ enc.status \in {"ok", "invalid_argument"}
    /\ enc.status = "invalid_argument" <=>
          \/ enc.params.n <= 0
          \/ enc.params.w <= 0
          \/ enc.params.w > enc.params.n
          \/ enc.params.max_val < enc.params.min_val

\* An encoder with w = n and max_val = min_val was constructed, and encodes.
C18_Witness ==
    /\ EncodeReturned
    /\ enc.params.w = enc.params.n
    /\ enc.params.max_val = enc.params.min_val
    /\ enc_call.sdr = [i \in 1..enc.params.n |-> 1]

(***************************************************************************)
(* Properties of WordRowEncoder, under SpecWord.                           *)
(***************************************************************************)
\* The bucket of character c: the index in alphabet of c lower-cased, or
\* |alphabet| when the alphabet does not hold it.
BucketOf(alphabet, c) ==
    LET lc == IF c \in 65..90 THEN c + 32 ELSE c
        at == {i \in 1..Len(alphabet) : alphabet[i] = lc}
    IN  IF at = {} THEN Len(alphabet)
        ELSE (CHOOSE i \in at : \A j \in at : i <= j) - 1

LowerCased(word) == [i \in 1..Len(word) |-> IF word[i] \in 65..90 THEN word[i] + 32 ELSE word[i]]

\* C6: encode(word) has length rows*cols; row r is all zero when r >= |word|,
\* and otherwise holds 1 exactly in the letter_bits columns of the bucket of
\* the word's r-th character; a word and its lower-cased form encode alike.
C6_WordRowsAreBucketBlocks ==
    (wenc.status = "ok" /\ wenc_call.op = "encode") =>
        LET p == wenc.params
            word == wenc_call.word
            sdr == wenc_call.sdr
        IN  /\ Len(sdr) = p.rows * p.cols
            /\ \A r \in 0..(p.rows - 1) : \A c \in 0..(p.cols - 1) :
                  sdr[r * p.cols + c + 1] =
                      IF r >= Len(word) THEN 0
                      ELSE LET bucket == BucketOf(p.alphabet, word[r + 1])
                           IN  IF bucket * p.letter_bits <= c
                                  /\ c < bucket * p.letter_bits + p.letter_bits
                               THEN 1 ELSE 0
            /\ sdr = WordRowEncoder_encode(p, LowerCased(word))

\* "A," was encoded over three rows with the alphabet "ab": row 0 holds the
\* block of 'a', row 1 the block of the unknown bucket, row 2 nothing.
C6_Witness ==
    /\ wenc.status = "ok"
    /\ wenc_call.op = "encode"
    /\ wenc.params.rows = 3
    /\ wenc.params.letter_bits = 2
    /\ wenc.params.alphabet = <<97, 98>>
    /\ wenc_call.word = <<65, 44>>
    /\ wenc_call.sdr = <<1, 1, 0, 0, 0, 0,  0, 0, 0, 0, 1, 1,  0, 0, 0, 0, 0, 0>>

\* C19: construction throws invalid_argument exactly when rows <= 0,
\* cols <= 0, letter_bits <= 0, the alphabet is empty or
\* cols # letter_bits * (|alphabet| + 1); no encoder exists otherwise.
C19_WordRowConstructionFails ==
    /\ wenc.status \in {"ok", "invalid_argument"}
    /\ wenc.status = "invalid_argument" <=>
          \/ wenc.params.rows <= 0
          \/ wenc.params.cols <= 0
          \/ wenc.params.letter_bits <= 0
          \/ wenc.params.alphabet = <<>>
          \/ wenc.params.cols # wenc.params.letter_bits * (Len(wenc.params.alphabet) + 1)

\* Construction threw for a configuration whose only fault is cols.
C19_Witness ==
    /\ wenc.status = "invalid_argument"
    /\ wenc.params.rows > 0
    /\ wenc.params.cols > 0
    /\ wenc.params.letter_bits > 0
    /\ wenc.params.alphabet # <<>>
    /\ wenc.params.cols # wenc.params.letter_bits * (Len(wenc.params.alphabet) + 1)

\* The columns of row r of sdr that hold a 1.
OnesOfRow(sdr, r, cols) == {c \in 0..(cols - 1) : sdr[r * cols + c + 1] # 0}

\* C20: each row of encode(word) holds no 1, or one contiguous run of exactly
\* letter_bits 1s inside the row, which is the block of one bucket; the blocks
\* of two different buckets share no column; the number of 1s is
\* letter_bits * min(|word|, rows).
C20_OneBlockPerRow ==
    (wenc.status = "ok" /\ wenc_call.op = "encode") =>
        LET p == wenc.params
            sdr == wenc_call.sdr
            buckets == 0..Len(p.alphabet)
            Block(b) == (b * p.letter_bits)..(b * p.letter_bits + p.letter_bits - 1)
        IN  /\ \A r \in 0..(p.rows - 1) :
                  LET ones == OnesOfRow(sdr, r, p.cols)
                  IN  \/ ones = {}
                      \/ /\ \E start \in 0..(p.cols - p.letter_bits) :
                               ones = start..(start + p.letter_bits - 1)
                         /\ \E b \in buckets : ones = Block(b)
            /\ \A b1, b2 \in buckets :
                  b1 # b2 => (Block(b1) \cap Block(b2) = {} /\ Block(b1) \subseteq 0..(p.cols - 1))
            /\ PopCount(sdr) = p.letter_bits * Min2(Len(wenc_call.word), p.rows)

\* A word of two characters was encoded over three rows of 2-bit blocks:
\* four 1s, the third row empty.
C20_Witness ==
    /\ wenc.status = "ok"
    /\ wenc_call.op = "encode"
    /\ wenc.params.rows = 3
    /\ wenc.params.letter_bits = 2
    /\ Len(wenc_call.word) = 2
    /\ PopCount(wenc_call.sdr) = 4
    /\ OnesOfRow(wenc_call.sdr, 2, wenc.params.cols) = {}

(***************************************************************************)
(* Properties of the cursors, under SpecCursor.                            *)
(***************************************************************************)
\* The cursor that was constructed, and its symbol sequence.
ActiveCursor == IF chunker.status = "ok" THEN chunker ELSE word_chunker
SymbolsOf(c) == IF "text_" \in DOMAIN c THEN c.text_ ELSE c.words_
CursorExists == chunker.status = "ok" \/ word_chunker.status = "ok"

\* A step in which next() was called on the cursor.
IsNextStep ==
    /\ cur_call'.op = "next"
    /\ <<chunker, word_chunker>>' # <<chunker, word_chunker>>

C12_PeekAtWraps ==
    /\ []((chunker.status = "ok" /\ cur_call.op = "peek_at") =>
            cur_call.ret =
                chunker.text_[((chunker.pos_ + cur_call.arg) % Len(chunker.text_)) + 1])
    /\ [][cur_call'.op = "peek_at" => chunker' = chunker]_vars

\* C14: reset() sets position, epoch and total_steps to zero and leaves the
\* symbol sequence as it is; the next() that follows it returns the first
\* symbol of the sequence.
C14_ResetRestoresStart ==
    /\ [][cur_call'.op = "reset" =>
            LET c == ActiveCursor
                d == ActiveCursor'
            IN  /\ d.pos_ = 0
                /\ d.epoch_ = 0
                /\ d.total_steps_ = 0
                /\ d.status = "ok"
                /\ SymbolsOf(d) = SymbolsOf(c)]_vars
    /\ [][(cur_call.op = "reset" /\ IsNextStep) =>
            cur_call'.ret = SymbolsOf(ActiveCursor)[1]]_vars

\* reset() was called on a cursor over the three symbols "abA"; it stands at
\* the start.
C14_Witness ==
    /\ chunker.status = "ok"
    /\ cur_call.op = "reset"
    /\ chunker.text_ = <<97, 98, 65>>
    /\ chunker.pos_ = 0
    /\ chunker.epoch_ = 0
    /\ chunker.total_steps_ = 0

\* C15: peek() returns the symbol at the current position and leaves position,
\* epoch and total_steps as they are; the next() that follows returns the
\* symbol peek() returned.
C15_PeekShowsNext ==
    /\ [][cur_call'.op = "peek" =>
            /\ <<chunker, word_chunker>>' = <<chunker, word_chunker>>
            /\ cur_call'.ret = SymbolsOf(ActiveCursor)[ActiveCursor.pos_ + 1]]_vars
    /\ [][(cur_call.op = "peek" /\ IsNextStep) => cur_call'.ret = cur_call.ret]_vars

\* peek() returned 'b', the second symbol of "abA", after four calls of next().
C15_Witness ==
    /\ chunker.status = "ok"
    /\ cur_call.op = "peek"
    /\ cur_call.ret = 98
    /\ chunker.text_ = <<97, 98, 65>>
    /\ chunker.pos_ = 1
    /\ chunker.epoch_ = 1
    /\ chunker.total_steps_ = 4

(***************************************************************************)
(* Properties of the cursors' construction, under SpecConstruct.           *)
(***************************************************************************)
\* A constructor was called: which class, whether its file could be opened
\* (an in-memory text always can), the text it read, and what it made.
Constructing == cur_call.op \in {"TextChunker", "TextChunker::from_string",
                                 "WordChunker", "WordChunker::from_string"}
ConstructingWords == cur_call.op \in {"WordChunker", "WordChunker::from_string"}
ConstructingFromFile == cur_call.op \in {"TextChunker", "WordChunker"}
Opened == ConstructingFromFile => cur_call.arg.exists
CorpusText == IF ConstructingFromFile THEN cur_call.arg.content ELSE cur_call.arg
Constructed == IF ConstructingWords THEN word_chunker ELSE chunker

Alphabetic(ch) == ch \in (65..90) \cup (97..122)

\* The maximal runs of alphabetic characters of text, as pairs <<first, last>>
\* of indices.
MaximalRuns(text) ==
    {run \in (1..Len(text)) \X (1..Len(text)) :
        /\ run[1] <= run[2]
        /\ \A k \in run[1]..run[2] : Alphabetic(text[k])
        /\ run[1] = 1 \/ ~Alphabetic(text[run[1] - 1])
        /\ run[2] = Len(text) \/ ~Alphabetic(text[run[2] + 1])}

\* C16: the word sequence of a text is the list, in order of occurrence, of
\* its maximal runs of alphabetic characters, each lower-cased; every token is
\* non-empty and holds lower-case letters only.
C16_WordsAreMaximalRuns ==
    (Constructing /\ ConstructingWords /\ word_chunker.status = "ok") =>
        LET text == CorpusText
            words == word_chunker.words_
            runs == MaximalRuns(text)
        IN  /\ Len(words) = Cardinality(runs)
            /\ \A run \in runs :
                  LET k == Cardinality({other \in runs : other[1] <= run[1]})
                  IN  words[k] = [i \in 1..(run[2] - run[1] + 1) |->
                                     LowerCased(text)[run[1] + i - 1]]
            /\ \A k \in 1..Len(words) :
                  /\ Len(words[k]) > 0
                  /\ \A i \in 1..Len(words[k]) : words[k][i] \in 97..122

\* "A,b" was tokenized: the words are "a" and "b".
C16_Witness ==
    /\ cur_call.op = "WordChunker::from_string"
    /\ cur_call.arg = <<65, 44, 98>>
    /\ word_chunker.status = "ok"
    /\ word_chunker.words_ = << <<97>>, <<98>> >>

\* C17: construction fails when the file cannot be opened (NotFound) or the
\* symbol sequence is empty (EmptyInput: an empty text for characters, a text
\* without alphabetic character for words), from a file and from a string
\* alike, and only then; a cursor that is constructed has a non-empty sequence
\* and position, epoch and total_steps 0.
C17_ConstructionFailsOnNoInput ==
    Constructing =>
        LET c == Constructed
            empty == IF ConstructingWords
                     THEN \A i \in 1..Len(CorpusText) : ~Alphabetic(CorpusText[i])
                     ELSE Len(CorpusText) = 0
        IN  /\ c.status = "ok" <=> (Opened /\ ~empty)
            /\ ~Opened => (c.status = "runtime_error" /\ c.what = "cannot open file")
            /\ (Opened /\ empty) =>
                  \/ c.status = "invalid_argument"
                  \/ c.status = "runtime_error" /\ c.what \in {"file is empty",
                                                                "no words found in file"}
            /\ c.status = "ok" =>
                  /\ Len(SymbolsOf(c)) > 0
                  /\ c.pos_ = 0
                  /\ c.epoch_ = 0
                  /\ c.total_steps_ = 0

\* WordChunker::from_string(",") threw: the text holds no word.
C17_Witness ==
    /\ cur_call.op = "WordChunker::from_string"
    /\ cur_call.arg = <<44>>
    /\ word_chunker.status = "invalid_argument"
    /\ chunker = Null

(***************************************************************************)
(* Properties of TextRuntime, under Spec.                                  *)
(***************************************************************************)
\* The SDR the runtime's encoder makes of the i-th symbol (from 1) of its
\* cursor's sequence.
EncodingOfSymbol(i) ==
    IF rt.input_mode_ = "Character"
    THEN ScalarEncoder_encode(enc, chunker.text_[i])
    ELSE WordRowEncoder_encode(wenc.params, word_chunker.words_[i])

\* Symbols the runtime's cursor holds, and symbols it has yielded.
InputSize == Len(SymbolsOf(ActiveCursor))
FedSoFar == ActiveCursor.total_steps_

\* The index (from 1) in the sequence of the k-th symbol fed (k from 1).
IndexOfFed(k) == ((k - 1) % InputSize) + 1

\* C3: the iteration that feeds symbol k+1 (k >= 1) has a prediction check; it
\* reads the snapshot left by the region's step on symbol k, when the cursor
\* has yielded k symbols, the region has made k steps and the region's input is
\* the encoding of symbol k; then come the counter update, next(), set_input
\* and step, in this order. The iteration that feeds symbol 1 has no check.
C3_CheckReadsPreviousStep ==
    (rt.status = "ok" /\ rt_call.last.fed_index # -1) =>
        LET l == rt_call.last
            k == l.fed_index - 1
        IN  /\ l.checked <=> k >= 1
            /\ l.checked =>
                  /\ l.snap_tick = k
                  /\ l.steps_at_check = k
                  /\ l.time_at_check = k
                  /\ l.input_at_check = EncodingOfSymbol(IndexOfFed(k))
                  /\ l.calls \in {<<"snapshot", "count", "next", "set_input", "step">>,
                                  <<"snapshot", "next", "set_input", "step">>}
            /\ ~l.checked => l.calls = <<"next", "set_input", "step">>

\* The third symbol was fed after a check that counted the snapshot of step 2.
C3_Witness ==
    /\ rt.status = "ok"
    /\ rt_call.last.fed_index = 3
    /\ rt_call.last.checked
    /\ rt_call.last.snap_tick = 2
    /\ rt_call.last.calls = <<"snapshot", "count", "next", "set_input", "step">>

\* A step that is one iteration of the loop of step.
IsIteration == rt_call'.todo = rt_call.todo - 1

\* The active columns of a snapshot that its per-column data covers, and
\* those of them with a predictive cell.
ActiveColumns(snap) ==
    {i \in 1..Len(snap.active_column_indices) :
        /\ snap.active_column_indices[i] >= 0
        /\ snap.active_column_indices[i] < Len(snap.column_cell_masks)}

PredictedActiveColumns(snap) ==
    {i \in ActiveColumns(snap) :
        snap.column_cell_masks[snap.active_column_indices[i] + 1] # 0}

\* C4: a prediction check on a snapshot with per-column data adds 1 to
\* total_predictions, and adds 1 to correct_predictions exactly when
\* total_active > 0 and 2 * predicted_and_active > total_active; a check on a
\* snapshot without per-column data changes neither counter.
C4_CheckUpdatesCounters ==
    [][(IsIteration /\ rt_call'.last.checked) =>
          LET snap == region.snap
              total_active == Cardinality(ActiveColumns(snap))
              predicted_and_active == Cardinality(PredictedActiveColumns(snap))
              majority == total_active > 0 /\ 2 * predicted_and_active > total_active
          IN  IF Len(snap.column_cell_masks) # 0
              THEN /\ rt'.total_predictions_ = rt.total_predictions_ + 1
                   /\ rt'.correct_predictions_ =
                         rt.correct_predictions_ + (IF majority THEN 1 ELSE 0)
                   /\ rt_call'.last.total_active = total_active
                   /\ rt_call'.last.predicted_and_active = predicted_and_active
              ELSE /\ rt'.total_predictions_ = rt.total_predictions_
                   /\ rt'.correct_predictions_ = rt.correct_predictions_]_vars

\* A check found exactly half of two active columns predicted: it was counted,
\* and not as correct.
C4_Witness ==
    /\ rt_call.last.checked
    /\ rt_call.last.total_active = 2
    /\ rt_call.last.predicted_and_active = 1
    /\ rt.total_predictions_ = 1
    /\ rt.correct_predictions_ = 0

\* C5: the cursor's total_steps equals the region's timestep; with the
\* iterations the call in progress has left it is the sum of the positive
\* counts requested (so it is that sum when no call is in progress); the
\* region's input is the encoding of the symbol fed last.
C5_CursorAndRegionInLockstep ==
    rt.status = "ok" =>
        /\ FedSoFar = region.timestep
        /\ FedSoFar + rt_call.todo = rt_call.requested
        /\ FedSoFar > 0 => region.input = EncodingOfSymbol(IndexOfFed(FedSoFar))

\* step was called twice, for 1 + 2 or 2 + 1 symbols, and has returned.
C5_Witness ==
    /\ rt.status = "ok"
    /\ rt_call.todo = 0
    /\ rt_call.requested = 3
    /\ FedSoFar = 3
    /\ region.timestep = 3
    /\ rt_call.last.fed_index = 3

\* C8: 0 <= correct_predictions <= total_predictions in every state, and
\* prediction_accuracy() returns 0 when total_predictions = 0 and otherwise
\* correct_predictions / total_predictions, a fraction within [0, 1].
C8_AccuracyIsAFraction ==
    /\ 0 <= rt.correct_predictions_
    /\ rt.correct_predictions_ <= rt.total_predictions_
    /\ rt_call.ret # NoRet =>
          /\ rt.total_predictions_ = 0 => rt_call.ret = [num |-> 0, den |-> 1]
          /\ rt.total_predictions_ > 0 =>
                rt_call.ret = [num |-> rt.correct_predictions_,
                               den |-> rt.total_predictions_]
          /\ rt_call.ret.den > 0
          /\ 0 <= rt_call.ret.num
          /\ rt_call.ret.num <= rt_call.ret.den

\* prediction_accuracy() returned 1/2.
C8_Witness ==
    /\ rt_call.ret = [num |-> 1, den |-> 2]
    /\ rt.total_predictions_ = 2

\* The window of the claim around index c (from 0) of a sequence of characters:
\* for j = -radius .. radius the element at index (c + j) mod length, the one
\* at j = 0 between '[' and ']'.
RECURSIVE CharWindow(_, _, _, _)
CharWindow(seq, c, j, radius) ==
    IF j > radius THEN <<>>
    ELSE LET e == seq[((c + j) % Len(seq)) + 1]
         IN  (IF j = 0 THEN <<91, e, 93>> ELSE <<e>>) \o CharWindow(seq, c, j + 1, radius)

\* The same for a sequence of words, the entries separated by one space.
RECURSIVE WordWindow(_, _, _, _)
WordWindow(seq, c, j, radius) ==
    IF j > radius THEN <<>>
    ELSE LET e == seq[((c + j) % Len(seq)) + 1]
         IN  (IF j = 0 THEN <<91>> \o e \o <<93>> ELSE e)
             \o (IF j < radius THEN <<32>> ELSE <<>>)
             \o WordWindow(seq, c, j + 1, radius)

\* C13: once a symbol has been fed, input_context() returns the window of
\* radius 10 (characters) or 4 (words) whose entry at offset j is the element
\* at index (c + j) mod length, c the index of the symbol fed last, only the
\* centre bracketed; for every length, also below the radius.
C13_ContextWindowWraps ==
    (rt.status = "ok" /\ rt_call.context # NoString /\ FedSoFar > 0) =>
        LET c == IndexOfFed(FedSoFar) - 1
        IN  rt_call.context =
                IF rt.input_mode_ = "Character"
                THEN CharWindow(chunker.text_, c, -10, 10)
                ELSE WordWindow(word_chunker.words_, c, -4, 4)

\* C22: step(count) with count <= 0 returns at once and changes nothing: the
\* cursor, the accuracy counters, the symbol fed last and the region stay,
\* and no iteration (no prediction check) runs.
C22_StepOfNoCountIsNoOp ==
    [][(rt_call'.op = "step" /\ ~rt_call'.count_positive) =>
          /\ rt_call'.todo = 0
          /\ rt_call'.last = rt_call.last
          /\ rt_call'.requested = rt_call.requested
          /\ rt' = rt
          /\ chunker' = chunker
          /\ word_chunker' = word_chunker
          /\ region' = region]_vars

\* step(0) or step(-1) has returned on a runtime that had fed two symbols and
\* counted one prediction check.
C22_Witness ==
    /\ rt_call.op = "step"
    /\ ~rt_call.count_positive
    /\ rt_call.todo = 0
    /\ FedSoFar = 2
    /\ region.timestep = 2
    /\ rt.total_predictions_ = 1

\* The cursor of the runtime's mode, and the other one.
ModeCursor == IF rt.input_mode_ = "Character" THEN chunker ELSE word_chunker
OtherCursor == IF rt.input_mode_ = "Character" THEN word_chunker ELSE chunker

\* In a constructed runtime exactly the cursor of the mode is present, the
\* region's input is the last symbol encoded by the mode's encoder, and a
\* query returned what the mode's cursor holds.
ModeDispatch ==
    rt.status = "ok" =>
        /\ rt.input_mode_ \in {"Character", "WordRows"}
        /\ ModeCursor # Null
        /\ OtherCursor = Null
        /\ ModeCursor.total_steps_ > 0 =>
              region.input = IF rt.input_mode_ = "Character"
                             THEN ScalarEncoder_encode(enc, rt.last_char_)
                             ELSE WordRowEncoder_encode(wenc.params, rt.last_word_)
        /\ rt_call.op = "input_size" => rt_call.value = Len(SymbolsOf(ModeCursor))
        /\ rt_call.op = "input_epoch" => rt_call.value = ModeCursor.epoch_
        /\ rt_call.op = "input_total_steps" => rt_call.value = ModeCursor.total_steps_
        /\ rt_call.op = "input_context" =>
              rt_call.context = IF rt.input_mode_ = "Character"
                                THEN TextRuntime_text_context(World)
                                ELSE TextRuntime_word_context(World)

\* No operation changes the mode; an iteration of step advances the mode's
\* cursor by one symbol, which becomes the last symbol of the mode, and leaves
\* the other cursor and the other mode's last symbol alone.
ModeKept ==
    /\ rt'.input_mode_ = rt.input_mode_
    /\ OtherCursor' = OtherCursor
    /\ IsIteration =>
          /\ ModeCursor'.total_steps_ = ModeCursor.total_steps_ + 1
          /\ IF rt.input_mode_ = "Character"
             THEN /\ rt'.last_char_ = chunker.text_[chunker.pos_ + 1]
                  /\ rt'.last_word_ = rt.last_word_
             ELSE /\ rt'.last_word_ = word_chunker.words_[word_chunker.pos_ + 1]
                  /\ rt'.last_char_ = rt.last_char_
    /\ ~IsIteration => ModeCursor' = ModeCursor

\* C23: a runtime is in exactly one mode, fixed at construction and changed by
\* no operation; in every state exactly the cursor of that mode is present,
\* step advances only that cursor and encodes with that mode's encoder, and
\* input_size, input_epoch, input_total_steps and input_context report the
\* cursor of the mode.
C23_OneModeThroughout == []ModeDispatch /\ [][ModeKept]_vars

\* input_epoch() returned 1 in character mode after the third symbol of a
\* text of two characters was fed.
C23_Witness ==
    /\ rt.status = "ok"
    /\ rt.input_mode_ = "Character"
    /\ rt_call.op = "input_epoch"
    /\ rt_call.value = 1
    /\ chunker.total_steps_ = 3
    /\ word_chunker = Null

\* The input size the region's layer 0 declares.
DeclaredInputSize == region.cfg.num_input_rows * region.cfg.num_input_cols

\* C24: in every constructed runtime the vector handed to the region's
\* set_input has the length the region's layer 0 declares, num_input_rows *
\* num_input_cols; it is n in character mode and rows * cols in word mode.
C24_InputWidthIsLayer0Size ==
    (rt.status = "ok" /\ region.timestep > 0) =>
        /\ Len(region.input) = DeclaredInputSize
        /\ Len(region.input) = IF rt.input_mode_ = "Character"
                               THEN enc.params.n
                               ELSE wenc.params.rows * wenc.params.cols

\* An iteration has a prediction check exactly when a symbol was fed before.
CheckedUnlessFirst == IsIteration => (rt_call'.last.checked <=> FedSoFar >= 1)

\* Once m >= 1 symbols are fed, total_predictions is below m, and it is m - 1
\* when every snapshot the region has left had per-column data.
ChecksCounted ==
    (rt.status = "ok" /\ FedSoFar > 0) =>
        /\ rt.total_predictions_ < TextRuntime_input_total_steps(World)
        /\ rt_call.dataless = 0 => rt.total_predictions_ = FedSoFar - 1

\* C25: the prediction check is skipped in the first iteration of the
\* runtime's lifetime and made in every later one, in whichever step call it
\* runs; so when every snapshot has per-column data total_predictions is
\* m - 1 after m >= 1 symbols, and total_predictions < input_total_steps
\* whenever input_total_steps > 0.
C25_CheckSkippedOnlyFirst == []ChecksCounted /\ [][CheckedUnlessFirst]_vars

\* Three symbols were fed, every snapshot had per-column data, and two checks
\* were counted.
C25_Witness ==
    /\ rt.status = "ok"
    /\ FedSoFar = 3
    /\ rt_call.dataless = 0
    /\ rt.total_predictions_ = 2
    /\ rt_call.last.checked

\* C27: a constructor given a null cursor throws invalid_argument, in
\* character mode and in word mode, so a constructed runtime has the cursor
\* of its mode.
C27_NullCursorFailsConstruction ==
    /\ ModeCursor = Null => rt.status = "invalid_argument"
    /\ rt.status = "ok" => ModeCursor # Null

\* The word-mode constructor was given a null cursor and threw.
C27_Witness ==
    /\ rt.input_mode_ = "WordRows"
    /\ word_chunker = Null
    /\ rt.status = "invalid_argument"
    /\ region.timestep = 0

\* C28: over any sequence of operations correct_predictions and
\* total_predictions never decrease, an iteration of step adds at most 1 to
\* each, and every other operation (a step of no count, a query) leaves them
\* as they are: nothing resets them.
C28_CountersOnlyGrow ==
    [][/\ rt'.correct_predictions_ - rt.correct_predictions_ \in {0, 1}
       /\ rt'.total_predictions_ - rt.total_predictions_ \in {0, 1}
       /\ ~IsIteration =>
             /\ rt'.correct_predictions_ = rt.correct_predictions_
             /\ rt'.total_predictions_ = rt.total_predictions_]_vars

\* Two checks were counted, both as correct, and step has returned.
C28_Witness ==
    /\ rt.status = "ok"
    /\ rt_call.op = "step"
    /\ rt_call.todo = 0
    /\ rt.total_predictions_ = 2
    /\ rt.correct_predictions_ = 2

(***************************************************************************)
(* Properties of step over a region whose calls can throw, under SpecFail. *)
(***************************************************************************)
\* A step in which a call of the region threw.
IsFailingIteration == rt_call.todo > 0 /\ rt_call'.thrown # "none"

\* How many entries of seq equal x.
Occurrences(seq, x) == Cardinality({i \in 1..Len(seq) : seq[i] = x})

\* C31: when the region's set_input or step throws in an iteration of step,
\* the call ends there: the call that threw is the last call made and was made
\* once, no iteration of that step call is left to run, and the counters are
\* the ones the iteration's own check had left before the failure.
C31_ModelFailureEndsStep ==
    [][IsFailingIteration =>
          LET checked == PredictionCheck(World)
              calls == rt_call'.last.calls
          IN  /\ rt_call'.todo = 0
              /\ calls[Len(calls)] = rt_call'.thrown
              /\ Occurrences(calls, rt_call'.thrown) = 1
              /\ rt'.correct_predictions_ = checked.rt.correct_predictions_
              /\ rt'.total_predictions_ = checked.rt.total_predictions_]_vars

\* step(2) ended in its first iteration, in which set_input threw: one symbol
\* was pulled, the region made no step and nothing was counted.
C31_Witness ==
    /\ rt.status = "ok"
    /\ rt_call.thrown = "set_input"
    /\ rt_call.requested = 2
    /\ rt_call.todo = 0
    /\ ModeCursor.total_steps_ = 1
    /\ region.timestep = 0
    /\ rt.total_predictions_ = 0

(***************************************************************************)
(* Properties of the runtime a GUI drives, under SpecGui.                  *)
(***************************************************************************)
\* The operations other than step.
AccessorOps ==
    {"snapshot", "input_context", "input_size", "input_epoch", "input_total_steps",
     "prediction_accuracy", "name", "layer_options", "set_active_layer", "set_log_text"}

\* C32: snapshot, input_context, input_size, input_epoch, input_total_steps,
\* prediction_accuracy, name, layer_options, set_active_layer and set_log_text
\* leave the cursor (its sequence, position, epoch and total_steps), both
\* accuracy counters and the last symbol fed as they were; only an iteration
\* of step changes them.
C32_OnlyStepMovesCursor ==
    [][/\ rt_call'.op \in AccessorOps =>
             /\ chunker' = chunker
             /\ word_chunker' = word_chunker
             /\ rt'.correct_predictions_ = rt.correct_predictions_
             /\ rt'.total_predictions_ = rt.total_predictions_
             /\ rt'.last_char_ = rt.last_char_
             /\ rt'.last_word_ = rt.last_word_
       /\ ~IsIteration =>
             /\ chunker' = chunker
             /\ word_chunker' = word_chunker
             /\ rt'.correct_predictions_ = rt.correct_predictions_
             /\ rt'.total_predictions_ = rt.total_predictions_
             /\ rt'.last_char_ = rt.last_char_
             /\ rt'.last_word_ = rt.last_word_]_vars

\* set_active_layer(1) has selected layer 1 of two after two symbols were fed
\* and one check counted; cursor and counter are as step left them.
C32_Witness ==
    /\ rt.status = "ok"
    /\ rt_call.op = "set_active_layer"
    /\ rt_call.value = 1
    /\ rt.active_layer_idx_ = 1
    /\ ModeCursor.total_steps_ = 2
    /\ rt.total_predictions_ = 1

\* An iteration of step does the same from a runtime that differs only in
\* its active layer: whatever layer j is selected and whatever snapshot the
\* region's step leaves, the cursor, the counters, the last symbol and the
\* region come out the same.
StepIgnoresActiveLayer ==
    \A j \in 0..(TextRuntime_num_layers(World) - 1),
       snap \in LayerSnapshots(region.timestep + 1) :
        LET other == [World EXCEPT !.rt.active_layer_idx_ = j]
        IN  StepIteration(other, snap) =
                [StepIteration(World, snap) EXCEPT !.rt.active_layer_idx_ = j]

LayerInRange ==
    rt.status = "ok" =>
        /\ 0 <= rt.active_layer_idx_
        /\ rt.active_layer_idx_ < TextRuntime_num_layers(World)
        /\ StepIgnoresActiveLayer

\* set_active_layer(idx) selects idx when 0 <= idx < num_layers and otherwise
\* selects nothing; it changes no other field.
LayerSelection ==
    rt_call'.op = "set_active_layer" =>
        LET idx == rt_call'.value
        IN  /\ rt' = [rt EXCEPT !.active_layer_idx_ =
                                    IF 0 <= idx /\ idx < TextRuntime_num_layers(World)
                                    THEN idx ELSE @]
            /\ region' = region
            /\ chunker' = chunker
            /\ word_chunker' = word_chunker

\* C34: set_active_layer(idx) changes the active layer only when
\* 0 <= idx < num_layers, so the active layer stays in [0, num_layers); the
\* prediction check reads layer 0 whatever layer is active, so two runs that
\* differ only in their set_active_layer calls go through the same cursor
\* states and counters (each step and each set_active_layer keeps two such
\* runs equal in everything but the active layer).
C34_LayerSelectionIsInert == []LayerInRange /\ [][LayerSelection]_vars

\* set_active_layer(2) on a region of two layers left layer 1 selected; layer
\* 0 had every active column predicted and layer 1 none, and the one check
\* made was counted as correct.
C34_Witness ==
    /\ rt.status = "ok"
    /\ rt_call.op = "set_active_layer"
    /\ rt_call.value = 2
    /\ TextRuntime_num_layers(World) = 2
    /\ rt.active_layer_idx_ = 1
    /\ region.timestep = 2
    /\ rt.total_predictions_ = 1
    /\ rt.correct_predictions_ = 1

(***************************************************************************)
(* Properties of split step requests, under SpecSplit.                     *)
(***************************************************************************)
\* The runtime as it was constructed, with the region it was given.
ConstructedWorld ==
    [rt |-> TextRuntime_new(rt.input_mode_, ModeCursor),
     chunker |-> IF chunker = Null THEN Null ELSE Cursor_reset(chunker),
     word_chunker |-> IF word_chunker = Null THEN Null ELSE Cursor_reset(word_chunker),
     region |-> Region_new(region.cfg),
     last |-> NoIteration]

\* C33: however a request is split into step calls of positive counts, once
\* the calls have returned the cursor, the counters, the last symbol, the
\* region and the sequence of calls made are those of one step call for the
\* sum of the counts, the region leaving the same snapshots; so step(a) then
\* step(b) is step(a + b), and a loop of step(1) is one step(total).
C33_SplitStepsAreOneStep ==
    (rt.status = "ok" /\ rt_call.todo = 0) =>
        LET one == TextRuntime_step(ConstructedWorld, rt_call.requested, rt_call.history)
        IN  /\ chunker = one.chunker
            /\ word_chunker = one.word_chunker
            /\ rt = one.rt
            /\ region = one.region
            /\ rt_call.model_calls = one.last.calls

\* Three symbols were fed by at least two step calls (no call asks for more
\* than two) and two checks were counted.
C33_Witness ==
    /\ rt.status = "ok"
    /\ rt_call.todo = 0
    /\ rt_call.requested = MaxCount + 1
    /\ MaxCount = 2
    /\ Len(rt_call.history) = 3
    /\ ModeCursor.total_steps_ = 3
    /\ rt.total_predictions_ = 2
    /\ Len(rt_call.model_calls) = 13

(***************************************************************************)
(* Properties of a cursor read without end, under SpecForever.             *)
(***************************************************************************)
\* The cursor that was constructed, and the symbols it holds.
ForeverCursor == IF chunker.status # "null" THEN chunker ELSE word_chunker
ForeverSymbols == SymbolsOf(ForeverCursor)

\* next() has just yielded the symbol at index i (from 1).
YieldedSymbol(i) ==
    /\ cur_call.op = "next"
    /\ cur_call.ret = ForeverSymbols[i]
    /\ (ForeverCursor.pos_ + Len(ForeverSymbols) - 1) % Len(ForeverSymbols) = i - 1

\* C29: a cursor has no terminal state: next() is enabled in every state; when
\* next() is called again and again every symbol of the sequence is yielded
\* infinitely often, and epoch never decreases and passes every value it
\* takes.
C29_CursorNeverEnds ==
    /\ [](ENABLED NextF)
    /\ \A i \in 1..MaxTextLen :
          []<>(i <= Len(ForeverSymbols) => YieldedSymbol(i))
    /\ [][ForeverCursor'.epoch_ >= ForeverCursor.epoch_]_vars
    /\ \A k \in 0..(IntMax - 1) :
          (ForeverCursor.epoch_ = k) ~> (ForeverCursor.epoch_ > k)

(***************************************************************************)
(* Properties of the default ScalarEncoder, under SpecDefault.             *)
(***************************************************************************)
\* C26: with n = 400, w = 21, min_val = 0, max_val = 127, for every v in
\* 0..126 overlap(v, v + 1) is more than half of w and more than
\* overlap(0, 127).
C26_AdjacentValuesShareMostBits ==
    (OverlapReturned /\ enc.params = DefaultParams /\ enc_call.b = enc_call.a + 1) =>
        /\ 2 * enc_call.count > enc.params.w
        /\ enc_call.count > enc.params.w \div 2
        /\ enc_call.count > ScalarEncoder_overlap(enc, 0, 127)

\* overlap(65, 66) returned 18 of the 21 bits.
C26_Witness ==
    /\ OverlapReturned
    /\ enc.params = DefaultParams
    /\ enc_call.a = 65
    /\ enc_call.b = 66
    /\ enc_call.count = 18
    /\ ScalarEncoder_overlap(enc, 0, 127) = 0

=============================================================================
